---- MODULE Spec2Model ----
(***************************************************************************)
(* Cycle-driven microcode engine of the RP2A03 (6502) core of feo6502.     *)
(*                                                                         *)
(* The CPU is the record `cpu` (the fields of struct RP2A03); the          *)
(* microcode queue `timing` is a sequence of steps                         *)
(*     [addr |-> address function, dir |-> "Read" | "Write", op |-> fn]    *)
(* One Cycle action is one call of RP2A03::cycle: it pops the head step,   *)
(* evaluates its address function, performs one bus access and runs the    *)
(* step's operation.                                                       *)
(*                                                                         *)
(* Spec: the bus is any device, a read returns any byte of Bytes (an       *)
(* opcode fetch any byte of Opcodes), and reset() may be called again.     *)
(* SpecRam: the bus is a RAM holding a program image, reads return what    *)
(* the RAM holds.  SpecUnit: single functions of the CPU, instructions of  *)
(* the catalog and the bus devices applied to drawn arguments, and a       *)
(* System with its Clock.  SpecSystem: the System and its Clock alone,     *)
(* with the clock thread and the system thread scheduled fairly.           *)
(***************************************************************************)
EXTENDS Integers, Sequences, FiniteSets, TLC

VARIABLES cpu,      \* struct RP2A03
          fault,    \* "none", or the panic that aborted the emulator
          bus,      \* history: the bus accesses of the current instruction
          cur,      \* history: context of the instruction being executed
          mem       \* the device on the bus: a RAM and its cells, or any device

vars == <<cpu, fault, bus, cur, mem>>

(***************************************************************************)
(* Bounds and input sets                                                   *)
(***************************************************************************)
\* cap of the cycle counter: 7 reset cycles, then instructions
MaxCycles == 15

\* cap of the number of opcodes decoded in a run
MaxInstructions == 1

\* cap of the number of consecutive calls of stack_push or of stack_pull
MaxPushes == 256

\* cap of the number of register accesses made on a PPU
MaxPpuAccesses == 4

\* cap of the number of clock ticks the clock sends to a system
MaxTicks == 24

\* the same two caps when the bus is a RAM holding a program: 7 reset cycles
\* and two instructions of 6 cycles
MaxRamCycles == 19

MaxRamInstructions == 2

\* bytes a bus read may return: as a branch operand +127 and -2 (either may
\* or may not leave the page), as an address low byte 254 carries with an
\* index of 128 and 127 does not
Bytes == {127, 254}

\* X and Y of the CPU on which reset() is called
IndexVals == {0, 128}

\* P of the CPU on which reset() is called: N, V, Z, C all clear or all set
StatusVals == {36, 231}

\* bytes an opcode fetch may return: every addressing mode in every I/O
\* category it has, the stack and control-transfer opcodes, the eight
\* branches, and BRK and CLI
Opcodes ==
    {0, 88,
     24, 234, 232, 10,
     169, 162,
     165, 133, 6, 36,
     181, 149, 22, 182, 150,
     173, 141, 14, 238,
     189, 157, 30, 185, 153, 27,
     161, 129, 3,
     177, 145, 19,
     32, 96, 64, 76, 108,
     8, 40, 72, 104,
     16, 48, 80, 112, 144, 176, 208, 240}

(***************************************************************************)
(* 8-bit helpers                                                           *)
(***************************************************************************)
RECURSIVE BitAnd(_, _)
BitAnd(m, n) ==
    IF m = 0 \/ n = 0 THEN 0
    ELSE (m % 2) * (n % 2) + 2 * BitAnd(m \div 2, n \div 2)

BitOr(m, n) == m + n - BitAnd(m, n)

BitXor(m, n) == m + n - 2 * BitAnd(m, n)

BitNot(m) == 255 - m

\* `as i8`
SignExtend(b) == IF b >= 128 THEN b - 256 ELSE b

(***************************************************************************)
(* Address (lib.rs)                                                        *)
(***************************************************************************)
Address(high, low) == high * 256 + low

High(addr) == addr \div 256

Low(addr) == addr % 256

set_high(addr, high) == Address(high, Low(addr))

set_low(addr, low) == Address(High(addr), low)

increment(addr) == (addr + 1) % 65536

\* Address::index: wraps within the low byte, no carry into the high byte
\* faulty variant of index: the sum carries into the high byte
index_carried(addr, i) == (addr + i) % 65536

index(addr, i) == Address(High(addr), (Low(addr) + i) % 256)

\* Address::offset: wrapping_add_signed(offset as i16)
offset(addr, o) == (addr + SignExtend(o) + 65536) % 65536

\* impl Add<u8> for Address: full 16-bit wrapping add
add(addr, rhs) == (addr + rhs) % 65536

(***************************************************************************)
(* AddressMask (lib.rs).  An Option is the set of its values: {} is None.  *)
(***************************************************************************)
\* 0xffff >> n on u16
ShiftRight(n) == 65535 \div (2 ^ n)

\* faulty variant of from_block: the mirror bits stay in the offset
from_block_unmirrored(start_address, prefix_bits, mirror_bits) ==
    [start_address |-> start_address,
     address_mask |-> 65535 - ShiftRight(prefix_bits),
     mirror_mask |-> ShiftRight(prefix_bits)]

\* AddressMask::from_block
from_block(start_address, prefix_bits, mirror_bits) ==
    [start_address |-> start_address,
     address_mask |-> 65535 - ShiftRight(prefix_bits),
     mirror_mask |-> ShiftRight(prefix_bits + mirror_bits)]

\* AddressMask::remap
remap(map, address) ==
    IF BitAnd(map.address_mask, address) = map.start_address
    THEN {BitAnd(address, map.mirror_mask)}
    ELSE {}

(***************************************************************************)
(* StatusFlags (isa6502.rs)                                                *)
(***************************************************************************)
FlagC == 1
FlagZ == 2
FlagI == 4
FlagD == 8
FlagB == 16
FlagDefault == 36
STACK_MASK == 207
FlagV == 64
FlagN == 128

contains(p, flags) == BitAnd(p, flags) = flags

insert(p, flags) == BitOr(p, flags)

remove(p, flags) == BitAnd(p, BitNot(flags))

set(p, flags, value) == IF value THEN insert(p, flags) ELSE remove(p, flags)

\* faulty variant of set_value_flags: N from a comparison that misses $80
set_value_flags_above(p, value) ==
    set(set(p, FlagZ, value = 0), FlagN, value > 128)

set_value_flags(p, value) ==
    set(set(p, FlagZ, value = 0), FlagN, SignExtend(value) < 0)

(***************************************************************************)
(* Instruction catalog (isa6502/instructions.rs).  A read instruction maps *)
(* (registers, data) to registers; a read-modify-write instruction maps    *)
(* them to <<registers, data>>; a write instruction yields the data byte.  *)
(***************************************************************************)
with_flags(c, value) == [c EXCEPT !.p = set_value_flags(c.p, value)]

JSR(c, data) == [c EXCEPT !.pc = Address(data, c.operand)]

JMP(c, data) == [c EXCEPT !.pc = Address(data, c.operand)]

\* faulty variant of BIT: bit 4 of the data is copied with the bits 7 and 6
BIT_with_break(c, data) ==
    LET flags == BitOr(BitOr(FlagN, FlagV), FlagB)
        p1 == insert(remove(c.p, flags), BitAnd(flags, data))
    IN  [c EXCEPT !.p = set(p1, FlagZ, BitAnd(c.a, data) = 0)]

BIT(c, data) ==
    LET flags == BitOr(FlagN, FlagV)
        p1 == insert(remove(c.p, flags), BitAnd(flags, data))
    IN  [c EXCEPT !.p = set(p1, FlagZ, BitAnd(c.a, data) = 0)]

PHP(c) == BitOr(c.p, BitNot(STACK_MASK))

\* faulty variant of PLP: all eight bits of P are taken from the byte pulled
PLP_whole(c, data) == [c EXCEPT !.p = data]

PLP(c, data) ==
    [c EXCEPT !.p = BitOr(BitAnd(data, STACK_MASK), BitAnd(c.p, BitNot(STACK_MASK)))]

PHA(c) == c.a

PLA(c, data) == with_flags([c EXCEPT !.a = data], data)

DEY(c, data) == with_flags([c EXCEPT !.y = (c.y + 255) % 256], (c.y + 255) % 256)

TAY(c, data) == with_flags([c EXCEPT !.y = c.a], c.a)

INY(c, data) == with_flags([c EXCEPT !.y = (c.y + 1) % 256], (c.y + 1) % 256)

INX(c, data) == with_flags([c EXCEPT !.x = (c.x + 1) % 256], (c.x + 1) % 256)

CLC(c, data) == [c EXCEPT !.p = set(c.p, FlagC, FALSE)]

SEC(c, data) == [c EXCEPT !.p = set(c.p, FlagC, TRUE)]

SEI(c, data) == [c EXCEPT !.p = set(c.p, FlagI, TRUE)]

CLV(c, data) == [c EXCEPT !.p = set(c.p, FlagV, FALSE)]

CLD(c, data) == [c EXCEPT !.p = set(c.p, FlagD, FALSE)]

SED(c, data) == [c EXCEPT !.p = set(c.p, FlagD, TRUE)]

TYA(c, data) == with_flags([c EXCEPT !.a = c.y], c.y)

STY(c) == c.y

LDY(c, data) == with_flags([c EXCEPT !.y = data], data)

compare(c, reg, data) ==
    LET p1 == set(c.p, FlagC, reg >= data)
        p2 == set(p1, FlagZ, reg = data)
    IN  [c EXCEPT !.p = set(p2, FlagN, SignExtend((reg - data + 256) % 256) < 0)]

CPY(c, data) == compare(c, c.y, data)

CPX(c, data) == compare(c, c.x, data)

ORA(c, data) == with_flags([c EXCEPT !.a = BitOr(c.a, data)], BitOr(c.a, data))

AND(c, data) == with_flags([c EXCEPT !.a = BitAnd(c.a, data)], BitAnd(c.a, data))

EOR(c, data) == with_flags([c EXCEPT !.a = BitXor(c.a, data)], BitXor(c.a, data))

\* faulty variant of add_with_carry: V from the carry out of bit 7
add_with_carry_unsigned(c, data) ==
    LET sum == c.a + data + BitAnd(c.p, 1)
        result == sum % 256
        p1 == set(c.p, FlagC, sum > 255)
        p2 == set(p1, FlagV, sum > 255)
    IN  with_flags([c EXCEPT !.p = p2, !.a = result], result)

\* overflowing_add twice: a + data, then + carry-in
add_with_carry(c, data) ==
    LET sum == c.a + data + BitAnd(c.p, 1)
        result == sum % 256
        p1 == set(c.p, FlagC, sum > 255)
        p2 == set(p1, FlagV,
                  BitAnd(BitAnd(BitXor(result, c.a), BitXor(result, data)), 128) > 0)
    IN  with_flags([c EXCEPT !.p = p2, !.a = result], result)

\* faulty variant of ADC: with D set the sum is corrected to two decimal
\* digits
ADC_decimal(c, data) ==
    LET r == add_with_carry(c, data)
    IN  IF contains(c.p, FlagD) /\ r.a % 16 > 9
        THEN [r EXCEPT !.a = (r.a + 6) % 256]
        ELSE r

ADC(c, data) == add_with_carry(c, data)

STA(c) == c.a

LDA(c, data) == with_flags([c EXCEPT !.a = data], data)

CMP(c, data) == compare(c, c.a, data)

\* faulty variant of SBC: the two's complement of the data is added
SBC_negated(c, data) == add_with_carry(c, (256 - data) % 256)

SBC(c, data) == add_with_carry(c, BitNot(data))

ASL(c, data) ==
    LET r == (data * 2) % 256
    IN  <<with_flags([c EXCEPT !.p = set(c.p, FlagC, data >= 128)], r), r>>

ROL(c, data) ==
    LET r == ((data * 2) % 256) + (IF contains(c.p, FlagC) THEN 1 ELSE 0)
    IN  <<with_flags([c EXCEPT !.p = set(c.p, FlagC, data >= 128)], r), r>>

LSR(c, data) ==
    LET r == data \div 2
    IN  <<with_flags([c EXCEPT !.p = set(c.p, FlagC, data % 2 = 1)], r), r>>

ROR(c, data) ==
    LET r == (data \div 2) + (IF contains(c.p, FlagC) THEN 128 ELSE 0)
    IN  <<with_flags([c EXCEPT !.p = set(c.p, FlagC, data % 2 = 1)], r), r>>

TXA(c, data) == with_flags([c EXCEPT !.a = c.x], c.x)

\* faulty variant of TXS: N and Z are set from the byte moved, as TSX does
TXS_flagged(c, data) == with_flags([c EXCEPT !.stack = c.x], c.x)

TXS(c, data) == [c EXCEPT !.stack = c.x]

STX(c) == c.x

TAX(c, data) == with_flags([c EXCEPT !.x = c.a], c.a)

TSX(c, data) == with_flags([c EXCEPT !.x = c.stack], c.stack)

LDX(c, data) == with_flags([c EXCEPT !.x = data], data)

DEX(c, data) == with_flags([c EXCEPT !.x = (c.x + 255) % 256], (c.x + 255) % 256)

DEC(c, data) == <<with_flags(c, (data + 255) % 256), (data + 255) % 256>>

NOP(c, data) == c

INC(c, data) == <<with_flags(c, (data + 1) % 256), (data + 1) % 256>>

\* illegal compounds: the RMW half, then the ALU half on the same byte
SLO(c, data) == LET r == ASL(c, data) IN <<ORA(r[1], r[2]), r[2]>>

RLA(c, data) == LET r == ROL(c, data) IN <<AND(r[1], r[2]), r[2]>>

SRE(c, data) == LET r == LSR(c, data) IN <<EOR(r[1], r[2]), r[2]>>

\* faulty variant of RRA: ADC adds the carry from before the ROR
RRA_stale_carry(c, data) ==
    LET r == ROR(c, data)
    IN  <<ADC([r[1] EXCEPT !.p = set(@, FlagC, contains(c.p, FlagC))], r[2]), r[2]>>

RRA(c, data) == LET r == ROR(c, data) IN <<ADC(r[1], r[2]), r[2]>>

SAX(c) == BitAnd(c.a, c.x)

LAX(c, data) == TAX(LDA(c, data), data)

DCP(c, data) == LET r == DEC(c, data) IN <<CMP(r[1], r[2]), r[2]>>

ISC(c, data) == LET r == INC(c, data) IN <<SBC(r[1], r[2]), r[2]>>

\* pseudo-instructions: the two halves of PC, read face and write face
PCL_read(c, data) == [c EXCEPT !.pc = set_low(c.pc, data)]

PCL_write(c) == Low(c.pc)

PCH_read(c, data) == [c EXCEPT !.pc = set_high(c.pc, data)]

PCH_write(c) == High(c.pc)

ReadInstructions ==
    {"BIT", "PLP", "PLA", "DEY", "TAY", "INY", "INX", "CLC", "SEC", "SEI", "CLV",
     "CLD", "SED", "TYA", "LDY", "CPY", "CPX", "ORA", "AND", "EOR", "ADC", "LDA",
     "CMP", "SBC", "TXA", "TXS", "TAX", "TSX", "LDX", "DEX", "NOP", "LAX"}

ReadWriteInstructions ==
    {"ASL", "ROL", "LSR", "ROR", "DEC", "INC", "SLO", "RLA", "SRE", "RRA", "DCP", "ISC"}

WriteInstructions == {"PHP", "PHA", "STY", "STA", "STX", "SAX"}

\* ReadInstruction::execute of the instruction named inst
execute_read(c, inst, data) ==
    CASE inst = "BIT" -> BIT(c, data)   [] inst = "PLP" -> PLP(c, data)
      [] inst = "PLA" -> PLA(c, data)   [] inst = "DEY" -> DEY(c, data)
      [] inst = "TAY" -> TAY(c, data)   [] inst = "INY" -> INY(c, data)
      [] inst = "INX" -> INX(c, data)   [] inst = "CLC" -> CLC(c, data)
      [] inst = "SEC" -> SEC(c, data)   [] inst = "SEI" -> SEI(c, data)
      [] inst = "CLV" -> CLV(c, data)   [] inst = "CLD" -> CLD(c, data)
      [] inst = "SED" -> SED(c, data)   [] inst = "TYA" -> TYA(c, data)
      [] inst = "LDY" -> LDY(c, data)   [] inst = "CPY" -> CPY(c, data)
      [] inst = "CPX" -> CPX(c, data)   [] inst = "ORA" -> ORA(c, data)
      [] inst = "AND" -> AND(c, data)   [] inst = "EOR" -> EOR(c, data)
      [] inst = "ADC" -> ADC(c, data)   [] inst = "LDA" -> LDA(c, data)
      [] inst = "CMP" -> CMP(c, data)   [] inst = "SBC" -> SBC(c, data)
      [] inst = "TXA" -> TXA(c, data)   [] inst = "TXS" -> TXS(c, data)
      [] inst = "TAX" -> TAX(c, data)   [] inst = "TSX" -> TSX(c, data)
      [] inst = "LDX" -> LDX(c, data)   [] inst = "DEX" -> DEX(c, data)
      [] inst = "NOP" -> NOP(c, data)   [] inst = "LAX" -> LAX(c, data)

\* ReadWriteInstruction::execute of the instruction named inst
execute_read_write(c, inst, data) ==
    CASE inst = "ASL" -> ASL(c, data)   [] inst = "ROL" -> ROL(c, data)
      [] inst = "LSR" -> LSR(c, data)   [] inst = "ROR" -> ROR(c, data)
      [] inst = "DEC" -> DEC(c, data)   [] inst = "INC" -> INC(c, data)
      [] inst = "SLO" -> SLO(c, data)   [] inst = "RLA" -> RLA(c, data)
      [] inst = "SRE" -> SRE(c, data)   [] inst = "RRA" -> RRA(c, data)
      [] inst = "DCP" -> DCP(c, data)   [] inst = "ISC" -> ISC(c, data)

\* WriteInstruction::execute of the instruction named inst
execute_write(c, inst) ==
    CASE inst = "PHP" -> PHP(c)   [] inst = "PHA" -> PHA(c)
      [] inst = "STY" -> STY(c)   [] inst = "STA" -> STA(c)
      [] inst = "STX" -> STX(c)   [] inst = "SAX" -> SAX(c)

(***************************************************************************)
(* Microcode queue (famicom.rs, impl Cpu for RP2A03)                       *)
(***************************************************************************)
Step(addr, dir, op, inst) == [addr |-> addr, dir |-> dir, op |-> op, inst |-> inst]

Read(addr, op) == Step(addr, "Read", op, "")

Write(addr, op) == Step(addr, "Write", op, "")

\* faulty variant of push_microcode: the step goes to the back of the queue
push_microcode_back(c, step) == [c EXCEPT !.timing = Append(@, step)]

\* timing.push_front
push_microcode(c, step) == [c EXCEPT !.timing = <<step>> \o @]

\* timing.push_back
queue_microcode(c, step) == [c EXCEPT !.timing = Append(@, step)]

\* the decode step: read at PC++, post-function decode_opcode
decode_step == Read("pc_inc", "decode_opcode")

\* MicrocodeControl::queue_read / queue_read_write / queue_write: a step whose
\* callback is INST::execute on the data latch
read_step(addr, inst) == Step(addr, "Read", "execute", inst)

read_write_step(addr, inst) == Step(addr, "Write", "execute_read_write", inst)

write_step(addr, inst) == Step(addr, "Write", "execute", inst)

\* a template is enqueued step by step with queue_microcode
RECURSIVE enqueue(_, _)
enqueue(c, steps) ==
    IF steps = <<>> THEN c
    ELSE enqueue(queue_microcode(c, Head(steps)), Tail(steps))

(***************************************************************************)
(* Address functions (famicom.rs, impl AddressMode for RP2A03, and the     *)
(* helpers of isa6502/addressing.rs).  Each yields <<address, cpu>>, the   *)
(* cpu after the function's side effect.                                   *)
(***************************************************************************)
address(c) == <<c.address_buffer, c>>

pc(c) == <<c.pc, c>>

pc_inc(c) == <<c.pc, [c EXCEPT !.pc = increment(c.pc)]>>

\* faulty variant of pc_offset_wrapping: the carry reaches the high byte
pc_offset_carried(c) == <<offset(c.pc, c.operand), c>>

pc_offset_wrapping(c) ==
    <<Address(High(c.pc), (Low(c.pc) + SignExtend(c.operand) + 256) % 256), c>>

stack(c) == <<Address(1, c.stack), c>>

stack_pull(c) ==
    LET s == (c.stack + 1) % 256
    IN  <<Address(1, s), [c EXCEPT !.stack = s]>>

\* faulty variant of stack_push: S is decremented before the address is formed
stack_push_early(c) ==
    LET s == (c.stack + 255) % 256
    IN  <<Address(1, s), [c EXCEPT !.stack = s]>>

stack_push(c) == <<Address(1, c.stack), [c EXCEPT !.stack = (c.stack + 255) % 256]>>

\* faulty variant of vector: the vector two bytes lower, the one of NMI
vector_nmi(c, v) == <<Address(255, v - 2), c>>

vector(c, v) == <<Address(255, v), c>>

zeropage(c) == <<c.operand, c>>

index_x(c) == c.x

index_y(c) == c.y

\* IndexedIndirectX
zeropage_indexed_low(c) == <<index(zeropage(c)[1], index_x(c)), c>>

zeropage_indexed_high(c) == <<index(zeropage(c)[1], (index_x(c) + 1) % 256), c>>

\* IndirectIndexedY
zeropage_high(c) == <<index(zeropage(c)[1], 1), c>>

address_indexed_y_no_carry(c) == <<index(address(c)[1], index_y(c)), c>>

address_indexed_y(c) == <<add(address(c)[1], index_y(c)), c>>

\* faulty variant of zeropage_indexed: the index carries into the high byte
zeropage_indexed_carried(c, INDEX_X) ==
    <<add(c.operand, IF INDEX_X THEN c.x ELSE c.y), c>>

\* ZeroPageIndexed<INDEX_X>
zeropage_indexed(c, INDEX_X) ==
    <<index(zeropage(c)[1], IF INDEX_X THEN index_x(c) ELSE index_y(c)), c>>

\* AbsoluteIndexed<INDEX_X>
address_indexed(c, INDEX_X) ==
    <<index(address(c)[1], IF INDEX_X THEN index_x(c) ELSE index_y(c)), c>>

address_indexed_corrected(c, INDEX_X) ==
    <<add(address(c)[1], IF INDEX_X THEN index_x(c) ELSE index_y(c)), c>>

\* JMP (indirect): the pointer's high-byte fetch wraps within the page
address_inc(c) == <<index(c.address_buffer, 1), c>>

\* address_mode(self) of a step
address_mode(c, name) ==
    CASE name = "address" -> address(c)
      [] name = "pc" -> pc(c)
      [] name = "pc_inc" -> pc_inc(c)
      [] name = "pc_offset_wrapping" -> pc_offset_wrapping(c)
      [] name = "stack" -> stack(c)
      [] name = "stack_pull" -> stack_pull(c)
      [] name = "stack_push" -> stack_push(c)
      [] name = "vector_FC" -> vector(c, 252)
      [] name = "vector_FD" -> vector(c, 253)
      [] name = "zeropage" -> zeropage(c)
      [] name = "zeropage_indexed_low" -> zeropage_indexed_low(c)
      [] name = "zeropage_indexed_high" -> zeropage_indexed_high(c)
      [] name = "zeropage_high" -> zeropage_high(c)
      [] name = "address_indexed_y_no_carry" -> address_indexed_y_no_carry(c)
      [] name = "address_indexed_y" -> address_indexed_y(c)
      [] name = "zeropage_indexed_x" -> zeropage_indexed(c, TRUE)
      [] name = "zeropage_indexed_y" -> zeropage_indexed(c, FALSE)
      [] name = "address_indexed_x" -> address_indexed(c, TRUE)
      [] name = "address_indexed_y_nc" -> address_indexed(c, FALSE)
      [] name = "address_indexed_corrected_x" -> address_indexed_corrected(c, TRUE)
      [] name = "address_indexed_corrected_y" -> address_indexed_corrected(c, FALSE)
      [] name = "address_inc" -> address_inc(c)

(***************************************************************************)
(* Addressing-mode cycle templates (isa6502/addressing.rs): the steps that *)
(* AddressingMode<CPU, INST, IO>::enqueue appends, decode step last.       *)
(***************************************************************************)
Immediate_Read(inst) == <<read_step("pc_inc", inst), decode_step>>

Immediate_ReadWrite(inst) == <<Read("pc_inc", "nop"), decode_step>>

Immediate_Write(inst) == <<Read("pc_inc", "nop"), decode_step>>

IndexedIndirectX_Read(inst) ==
    <<Read("pc_inc", "pull_operand"),
      Read("zeropage", "nop"),
      Read("zeropage_indexed_low", "buffer_low"),
      Read("zeropage_indexed_high", "buffer_high"),
      read_step("address", inst),
      decode_step>>

IndexedIndirectX_ReadWrite(inst) ==
    <<Read("pc_inc", "pull_operand"),
      Read("zeropage", "nop"),
      Read("zeropage_indexed_low", "buffer_low"),
      Read("zeropage_indexed_high", "buffer_high"),
      Read("address", "nop"),
      Write("address", "nop"),
      read_write_step("address", inst),
      decode_step>>

IndexedIndirectX_Write(inst) ==
    <<Read("pc_inc", "pull_operand"),
      Read("zeropage", "nop"),
      Read("zeropage_indexed_low", "buffer_low"),
      Read("zeropage_indexed_high", "buffer_high"),
      write_step("address", inst),
      decode_step>>

ZeroPage_Read(inst) ==
    <<Read("pc_inc", "pull_operand"), read_step("zeropage", inst), decode_step>>

\* faulty variant of the ZeroPage read-modify-write template: the write-back
\* of the unmodified byte is left out
ZeroPage_ReadWrite_short(inst) ==
    <<Read("pc_inc", "pull_operand"),
      Read("zeropage", "nop"),
      read_write_step("zeropage", inst),
      decode_step>>

ZeroPage_ReadWrite(inst) ==
    <<Read("pc_inc", "pull_operand"),
      Read("zeropage", "nop"),
      Write("zeropage", "nop"),
      read_write_step("zeropage", inst),
      decode_step>>

ZeroPage_Write(inst) ==
    <<Read("pc_inc", "pull_operand"), write_step("zeropage", inst), decode_step>>

Stack_Read(inst) ==
    <<Read("pc", "nop"), Read("stack", "nop"), read_step("stack_pull", inst), decode_step>>

Stack_Write(inst) ==
    <<Read("pc", "nop"), write_step("stack_push", inst), decode_step>>

Accumulator_Read(inst) ==
    <<Step("pc", "Read", "with_accumulator_read", inst), decode_step>>

Accumulator_ReadWrite(inst) ==
    <<Step("pc", "Read", "with_accumulator_read_write", inst), decode_step>>

Accumulator_Write(inst) ==
    <<Step("pc", "Read", "with_accumulator_write", inst), decode_step>>

Absolute_Read(inst) ==
    <<Read("pc_inc", "buffer_low"),
      Read("pc_inc", "buffer_high"),
      read_step("address", inst),
      decode_step>>

\* faulty variant of Absolute_ReadWrite: the write-back of the second write
\* cycle is the instruction's too
Absolute_ReadWrite_twice(inst) ==
    <<Read("pc_inc", "buffer_low"),
      Read("pc_inc", "buffer_high"),
      Read("address", "nop"),
      read_write_step("address", inst),
      read_write_step("address", inst),
      decode_step>>

Absolute_ReadWrite(inst) ==
    <<Read("pc_inc", "buffer_low"),
      Read("pc_inc", "buffer_high"),
      Read("address", "nop"),
      Write("address", "nop"),
      read_write_step("address", inst),
      decode_step>>

Absolute_Write(inst) ==
    <<Read("pc_inc", "buffer_low"),
      Read("pc_inc", "buffer_high"),
      write_step("address", inst),
      decode_step>>

IndirectIndexedY_Read(inst) ==
    <<Read("pc_inc", "pull_operand"),
      Read("zeropage", "buffer_low"),
      Read("zeropage_high", "buffer_high_maybe_pagefix"),
      read_step("address_indexed_y", inst),
      decode_step>>

IndirectIndexedY_ReadWrite(inst) ==
    <<Read("pc_inc", "pull_operand"),
      Read("zeropage", "buffer_low"),
      Read("zeropage_high", "buffer_high"),
      Read("address_indexed_y_no_carry", "nop"),
      Read("address_indexed_y", "nop"),
      Write("address_indexed_y", "nop"),
      read_write_step("address_indexed_y", inst),
      decode_step>>

IndirectIndexedY_Write(inst) ==
    <<Read("pc_inc", "pull_operand"),
      Read("zeropage", "buffer_low"),
      Read("zeropage_high", "nop"),
      Read("address_indexed_y_no_carry", "nop"),
      write_step("address_indexed_y", inst),
      decode_step>>

ZeroPageIndexed_Read(INDEX_X, inst) ==
    <<Read("pc_inc", "pull_operand"),
      Read("zeropage", "nop"),
      read_step(IF INDEX_X THEN "zeropage_indexed_x" ELSE "zeropage_indexed_y", inst),
      decode_step>>

ZeroPageIndexed_ReadWrite(INDEX_X, inst) ==
    LET zeropage_indexed_fn == IF INDEX_X THEN "zeropage_indexed_x" ELSE "zeropage_indexed_y"
    IN  <<Read("pc_inc", "pull_operand"),
          Read("zeropage", "nop"),
          Read(zeropage_indexed_fn, "nop"),
          Write(zeropage_indexed_fn, "nop"),
          read_write_step(zeropage_indexed_fn, inst),
          decode_step>>

ZeroPageIndexed_Write(INDEX_X, inst) ==
    <<Read("pc_inc", "pull_operand"),
      Read("zeropage", "nop"),
      write_step(IF INDEX_X THEN "zeropage_indexed_x" ELSE "zeropage_indexed_y", inst),
      decode_step>>

\* faulty variant of Implied_Read: the dummy read advances PC
Implied_Read_advancing(inst) == <<read_step("pc_inc", inst), decode_step>>

Implied_Read(inst) == <<read_step("pc", inst), decode_step>>

Implied_ReadWrite(inst) == <<Read("pc", "nop"), decode_step>>

Implied_Write(inst) == <<Read("pc", "nop"), decode_step>>

AbsoluteIndexed_Read(INDEX_X, inst) ==
    <<Read("pc_inc", "buffer_low"),
      Read("pc_inc", IF INDEX_X THEN "buffer_high_pagefix_x" ELSE "buffer_high_pagefix_y"),
      read_step(IF INDEX_X THEN "address_indexed_corrected_x"
                ELSE "address_indexed_corrected_y", inst),
      decode_step>>

AbsoluteIndexed_ReadWrite(INDEX_X, inst) ==
    LET corrected == IF INDEX_X THEN "address_indexed_corrected_x"
                     ELSE "address_indexed_corrected_y"
    IN  <<Read("pc_inc", "buffer_low"),
          Read("pc_inc", "buffer_high"),
          Read(IF INDEX_X THEN "address_indexed_x" ELSE "address_indexed_y_nc", "nop"),
          Read(corrected, "nop"),
          Write(corrected, "nop"),
          read_write_step(corrected, inst),
          decode_step>>

AbsoluteIndexed_Write(INDEX_X, inst) ==
    <<Read("pc_inc", "buffer_low"),
      Read("pc_inc", "buffer_high"),
      Read(IF INDEX_X THEN "address_indexed_x" ELSE "address_indexed_y_nc", "nop"),
      write_step(IF INDEX_X THEN "address_indexed_corrected_x"
                 ELSE "address_indexed_corrected_y", inst),
      decode_step>>

(***************************************************************************)
(* Hand-written control-transfer sequences (famicom.rs)                    *)
(***************************************************************************)
queue_jmp ==
    <<Read("pc_inc", "pull_operand"), Read("pc_inc", "jmp"), decode_step>>

\* faulty variant of queue_jsr: PCL is pushed before PCH
queue_jsr_low_first ==
    <<Read("pc_inc", "pull_operand"),
      Read("stack", "nop"),
      Write("stack_push", "push_pcl"),
      Write("stack_push", "push_pch"),
      Read("pc_inc", "pc_operand"),
      decode_step>>

queue_jsr ==
    <<Read("pc_inc", "pull_operand"),
      Read("stack", "nop"),
      Write("stack_push", "push_pch"),
      Write("stack_push", "push_pcl"),
      Read("pc_inc", "pc_operand"),
      decode_step>>

queue_rti ==
    <<Read("pc_inc", "nop"),
      Read("stack", "nop"),
      Read("stack_pull", "plp"),
      Read("stack_pull", "pull_pcl"),
      Read("stack_pull", "pull_pch"),
      decode_step>>

\* faulty variant of queue_rts: the closing read at PC++ is left out
queue_rts_short ==
    <<Read("pc_inc", "nop"),
      Read("stack", "nop"),
      Read("stack_pull", "pull_pcl"),
      Read("stack_pull", "pull_pch"),
      decode_step>>

queue_rts ==
    <<Read("pc_inc", "nop"),
      Read("stack", "nop"),
      Read("stack_pull", "pull_pcl"),
      Read("stack_pull", "pull_pch"),
      Read("pc_inc", "nop"),
      decode_step>>

\* Indirect JMP: pointer low, pointer high, target low, target high
queue_jmp_indirect ==
    <<Read("pc_inc", "buffer_low"),
      Read("pc_inc", "buffer_high"),
      Read("address", "pull_operand"),
      Read("address_inc", "jmp"),
      decode_step>>

decode_stack(opcode) ==
    <<Read("pc", "nop")>>
    \o (CASE opcode = 8 -> <<Write("stack_push", "php")>>
          [] opcode = 40 -> <<Read("stack", "nop"), Read("stack_pull", "plp")>>
          [] opcode = 72 -> <<Write("stack_push", "pha")>>
          [] opcode = 104 -> <<Read("stack", "nop"), Read("stack_pull", "pla")>>)
    \o <<decode_step>>

\* faulty variant of should_branch: BVC and BVS test N
should_branch_on_sign(c, opcode) ==
    CASE opcode \in {16, 80} -> ~contains(c.p, FlagN)
      [] opcode \in {48, 112} -> contains(c.p, FlagN)
      [] opcode = 144 -> ~contains(c.p, FlagC)
      [] opcode = 176 -> contains(c.p, FlagC)
      [] opcode = 208 -> ~contains(c.p, FlagZ)
      [] opcode = 240 -> contains(c.p, FlagZ)

\* the flag test of decode_branch
should_branch(c, opcode) ==
    CASE opcode = 16 -> ~contains(c.p, FlagN)
      [] opcode = 48 -> contains(c.p, FlagN)
      [] opcode = 80 -> ~contains(c.p, FlagV)
      [] opcode = 112 -> contains(c.p, FlagV)
      [] opcode = 144 -> ~contains(c.p, FlagC)
      [] opcode = 176 -> contains(c.p, FlagC)
      [] opcode = 208 -> ~contains(c.p, FlagZ)
      [] opcode = 240 -> contains(c.p, FlagZ)

\* faulty variant of decode_branch: the closing queue_decode() is left out
decode_branch_no_decode(c, opcode) ==
    <<Read("pc_inc", "pull_operand")>>
    \o (IF should_branch(c, opcode) THEN <<Read("pc", "branch")>> ELSE <<>>)

decode_branch(c, opcode) ==
    <<Read("pc_inc", "pull_operand")>>
    \o (IF should_branch(c, opcode) THEN <<Read("pc", "branch")>> ELSE <<>>)
    \o <<decode_step>>

\* faulty variant of reset: the three stack steps write PCH, PCL and P, as an
\* interrupt sequence does
reset_pushing(c) ==
    enqueue([c EXCEPT !.stack = 0, !.p = set(c.p, FlagDefault, TRUE), !.timing = <<>>],
            <<Read("pc_inc", "nop"),
              Read("pc_inc", "nop"),
              Write("stack_push", "push_pch"),
              Write("stack_push", "push_pcl"),
              Write("stack_push", "php"),
              Read("vector_FC", "pcl"),
              Read("vector_FD", "pch"),
              decode_step>>)

\* faulty variant of reset: the queue is not cleared, the reset steps come
\* behind the steps that are left
reset_behind(c) ==
    enqueue([c EXCEPT !.stack = 0, !.p = set(c.p, FlagDefault, TRUE)],
            <<Read("pc_inc", "nop"),
              Read("pc_inc", "nop"),
              Read("stack_push", "nop"),
              Read("stack_push", "nop"),
              Read("stack_push", "nop"),
              Read("vector_FC", "pcl"),
              Read("vector_FD", "pch"),
              decode_step>>)

\* RP2A03::reset
reset(c) ==
    enqueue([c EXCEPT !.stack = 0, !.p = set(c.p, FlagDefault, TRUE), !.timing = <<>>],
            <<Read("pc_inc", "nop"),
              Read("pc_inc", "nop"),
              Read("stack_push", "nop"),
              Read("stack_push", "nop"),
              Read("stack_push", "nop"),
              Read("vector_FC", "pcl"),
              Read("vector_FD", "pch"),
              decode_step>>)

(***************************************************************************)
(* Opcode decoding (famicom.rs, decode_opcode and decode_addressing)       *)
(***************************************************************************)
Decoded(kind, io, inst) == [kind |-> kind, io |-> io, inst |-> inst]

Addressing(io, inst) == Decoded("addressing", io, inst)

Unimplemented == Decoded("unimplemented", "", "")

\* the match of decode_opcode, arms in source order
decode_opcode(opcode) ==
    LET high == opcode >= 128
        row == (opcode \div 32) * 2
        column == opcode % 32
        block == opcode % 4
    IN  IF column = 16 THEN Decoded("branch", "", "")
        ELSE IF row = 2 /\ column = 0 THEN Decoded("jsr", "", "")
        ELSE IF row = 4 /\ column = 0 THEN Decoded("rti", "", "")
        ELSE IF row = 6 /\ column = 0 THEN Decoded("rts", "", "")
        ELSE IF row = 2 /\ column = 4 THEN Addressing("Read", "BIT")
        ELSE IF ~high /\ column = 8 THEN Decoded("stack", "", "")
        ELSE IF row = 8 /\ column = 8 THEN Addressing("Read", "DEY")
        ELSE IF row = 10 /\ column = 8 THEN Addressing("Read", "TAY")
        ELSE IF row = 12 /\ column = 8 THEN Addressing("Read", "INY")
        ELSE IF row = 14 /\ column = 8 THEN Addressing("Read", "INX")
        ELSE IF row = 4 /\ column = 12 THEN Decoded("jmp", "", "")
        ELSE IF row = 0 /\ column = 24 THEN Addressing("Read", "CLC")
        ELSE IF row = 2 /\ column = 24 THEN Addressing("Read", "SEC")
        ELSE IF row = 6 /\ column = 24 THEN Addressing("Read", "SEI")
        ELSE IF row = 10 /\ column = 24 THEN Addressing("Read", "CLV")
        ELSE IF row = 12 /\ column = 24 THEN Addressing("Read", "CLD")
        ELSE IF row = 14 /\ column = 24 THEN Addressing("Read", "SED")
        ELSE IF row = 8 /\ column = 24 THEN Addressing("Read", "TYA")
        ELSE IF row = 8 /\ block = 0 THEN Addressing("Write", "STY")
        ELSE IF row = 10 /\ block = 0 THEN Addressing("Read", "LDY")
        ELSE IF row = 12 /\ block = 0 THEN Addressing("Read", "CPY")
        ELSE IF row = 14 /\ block = 0 THEN Addressing("Read", "CPX")
        ELSE IF row = 0 /\ block = 1 THEN Addressing("Read", "ORA")
        ELSE IF row = 2 /\ block = 1 THEN Addressing("Read", "AND")
        ELSE IF row = 4 /\ block = 1 THEN Addressing("Read", "EOR")
        ELSE IF row = 6 /\ block = 1 THEN Addressing("Read", "ADC")
        ELSE IF row = 8 /\ block = 1 THEN Addressing("Write", "STA")
        ELSE IF row = 10 /\ block = 1 THEN Addressing("Read", "LDA")
        ELSE IF row = 12 /\ block = 1 THEN Addressing("Read", "CMP")
        ELSE IF row = 14 /\ block = 1 THEN Addressing("Read", "SBC")
        ELSE IF row = 0 /\ block = 2 THEN Addressing("ReadWrite", "ASL")
        ELSE IF row = 2 /\ block = 2 THEN Addressing("ReadWrite", "ROL")
        ELSE IF row = 4 /\ block = 2 THEN Addressing("ReadWrite", "LSR")
        ELSE IF row = 6 /\ block = 2 THEN Addressing("ReadWrite", "ROR")
        ELSE IF row = 8 /\ column = 10 THEN Addressing("Read", "TXA")
        ELSE IF row = 8 /\ column = 26 THEN Addressing("Read", "TXS")
        ELSE IF row = 8 /\ block = 2 THEN Addressing("Write", "STX")
        ELSE IF row = 10 /\ column = 10 THEN Addressing("Read", "TAX")
        ELSE IF row = 10 /\ column = 26 THEN Addressing("Read", "TSX")
        ELSE IF row = 10 /\ block = 2 THEN Addressing("Read", "LDX")
        ELSE IF row = 12 /\ column = 10 THEN Addressing("Read", "DEX")
        ELSE IF row = 14 /\ column = 10 THEN Addressing("Read", "NOP")
        ELSE Unimplemented

\* the match of decode_addressing on opcode & 0x1f
decode_addressing(opcode) ==
    LET column == opcode % 32
    IN  CASE column \in {0, 2} -> "Immediate"
          [] column \in {1, 3} -> "IndexedIndirectX"
          [] column \in 4..7 -> "ZeroPage"
          [] column \in {8, 10} -> "Accumulator"
          [] column \in {9, 11} -> "Immediate"
          [] column \in 12..15 -> "Absolute"
          [] column \in {16, 18} -> "unimplemented"
          [] column \in {17, 19} -> "IndirectIndexedY"
          [] column \in 20..23 -> "unimplemented"
          [] column \in {24, 26} -> "Implied"
          [] column \in {25, 27} -> "unimplemented"
          [] column \in 28..31 -> "unimplemented"

(***************************************************************************)
(* The opcodes famicom.rs leaves without a decode arm, as the 6502         *)
(* instruction set assigns them to the catalog of instructions.rs and the  *)
(* templates of addressing.rs.                                             *)
(***************************************************************************)
\* zero page,Y and absolute,Y replace the X forms for STX/LDX/SAX/LAX
IndexIsY(opcode) ==
    LET row == (opcode \div 32) * 2
        column == opcode % 32
        block == opcode % 4
    IN  \/ column \in {25, 27}
        \/ row \in {8, 10} /\ block \in {2, 3} /\ column \in (20..23) \cup (28..31)

isa_addressing(opcode) ==
    LET column == opcode % 32
    IN  CASE column \in 20..23 ->
               IF IndexIsY(opcode) THEN "ZeroPageIndexedY" ELSE "ZeroPageIndexedX"
          [] column \in {25, 27} \cup (28..31) ->
               IF IndexIsY(opcode) THEN "AbsoluteIndexedY" ELSE "AbsoluteIndexedX"
          [] OTHER -> decode_addressing(opcode)

isa_opcode(opcode) ==
    LET row == (opcode \div 32) * 2
        column == opcode % 32
        block == opcode % 4
    IN  IF decode_opcode(opcode).kind # "unimplemented" THEN decode_opcode(opcode)
        ELSE IF opcode = 108 THEN Decoded("jmp_indirect", "", "")
        ELSE IF opcode = 44 THEN Addressing("Read", "BIT")
        ELSE IF block = 2 /\ row = 12 /\ column \in {6, 14, 22, 30}
             THEN Addressing("ReadWrite", "DEC")
        ELSE IF block = 2 /\ row = 14 /\ column \in {6, 14, 22, 30}
             THEN Addressing("ReadWrite", "INC")
        ELSE IF block = 3 /\ column \in {3, 7, 15, 19, 23, 27, 31} /\ opcode \notin {147, 155, 159, 187}
             THEN CASE row = 0 -> Addressing("ReadWrite", "SLO")
                    [] row = 2 -> Addressing("ReadWrite", "RLA")
                    [] row = 4 -> Addressing("ReadWrite", "SRE")
                    [] row = 6 -> Addressing("ReadWrite", "RRA")
                    [] row = 8 -> Addressing("Write", "SAX")
                    [] row = 10 -> Addressing("Read", "LAX")
                    [] row = 12 -> Addressing("ReadWrite", "DCP")
                    [] row = 14 -> Addressing("ReadWrite", "ISC")
        ELSE Unimplemented

\* AddressingMode<CPU, INST, IO>::enqueue for the mode and category decoded
template(mode, io, inst) ==
    CASE mode = "Immediate" /\ io = "Read" -> Immediate_Read(inst)
      [] mode = "Immediate" /\ io = "ReadWrite" -> Immediate_ReadWrite(inst)
      [] mode = "Immediate" /\ io = "Write" -> Immediate_Write(inst)
      [] mode = "IndexedIndirectX" /\ io = "Read" -> IndexedIndirectX_Read(inst)
      [] mode = "IndexedIndirectX" /\ io = "ReadWrite" -> IndexedIndirectX_ReadWrite(inst)
      [] mode = "IndexedIndirectX" /\ io = "Write" -> IndexedIndirectX_Write(inst)
      [] mode = "ZeroPage" /\ io = "Read" -> ZeroPage_Read(inst)
      [] mode = "ZeroPage" /\ io = "ReadWrite" -> ZeroPage_ReadWrite(inst)
      [] mode = "ZeroPage" /\ io = "Write" -> ZeroPage_Write(inst)
      [] mode = "Accumulator" /\ io = "Read" -> Accumulator_Read(inst)
      [] mode = "Accumulator" /\ io = "ReadWrite" -> Accumulator_ReadWrite(inst)
      [] mode = "Accumulator" /\ io = "Write" -> Accumulator_Write(inst)
      [] mode = "Absolute" /\ io = "Read" -> Absolute_Read(inst)
      [] mode = "Absolute" /\ io = "ReadWrite" -> Absolute_ReadWrite(inst)
      [] mode = "Absolute" /\ io = "Write" -> Absolute_Write(inst)
      [] mode = "IndirectIndexedY" /\ io = "Read" -> IndirectIndexedY_Read(inst)
      [] mode = "IndirectIndexedY" /\ io = "ReadWrite" -> IndirectIndexedY_ReadWrite(inst)
      [] mode = "IndirectIndexedY" /\ io = "Write" -> IndirectIndexedY_Write(inst)
      [] mode = "ZeroPageIndexedX" /\ io = "Read" -> ZeroPageIndexed_Read(TRUE, inst)
      [] mode = "ZeroPageIndexedX" /\ io = "ReadWrite" -> ZeroPageIndexed_ReadWrite(TRUE, inst)
      [] mode = "ZeroPageIndexedX" /\ io = "Write" -> ZeroPageIndexed_Write(TRUE, inst)
      [] mode = "ZeroPageIndexedY" /\ io = "Read" -> ZeroPageIndexed_Read(FALSE, inst)
      [] mode = "ZeroPageIndexedY" /\ io = "ReadWrite" -> ZeroPageIndexed_ReadWrite(FALSE, inst)
      [] mode = "ZeroPageIndexedY" /\ io = "Write" -> ZeroPageIndexed_Write(FALSE, inst)
      [] mode = "Implied" /\ io = "Read" -> Implied_Read(inst)
      [] mode = "Implied" /\ io = "ReadWrite" -> Implied_ReadWrite(inst)
      [] mode = "Implied" /\ io = "Write" -> Implied_Write(inst)
      [] mode = "AbsoluteIndexedX" /\ io = "Read" -> AbsoluteIndexed_Read(TRUE, inst)
      [] mode = "AbsoluteIndexedX" /\ io = "ReadWrite" -> AbsoluteIndexed_ReadWrite(TRUE, inst)
      [] mode = "AbsoluteIndexedX" /\ io = "Write" -> AbsoluteIndexed_Write(TRUE, inst)
      [] mode = "AbsoluteIndexedY" /\ io = "Read" -> AbsoluteIndexed_Read(FALSE, inst)
      [] mode = "AbsoluteIndexedY" /\ io = "ReadWrite" -> AbsoluteIndexed_ReadWrite(FALSE, inst)
      [] mode = "AbsoluteIndexedY" /\ io = "Write" -> AbsoluteIndexed_Write(FALSE, inst)

(***************************************************************************)
(* Step operations: the callback run by cycle() after a read, or before a  *)
(* write.                                                                  *)
(***************************************************************************)
pull_operand(c, data) == [c EXCEPT !.operand = data]

\* MicrocodeInstructions::buffer_low / buffer_high: latch one half of the
\* effective address
buffer_low(c, data) == [c EXCEPT !.address_buffer = set_low(@, data)]

buffer_high(c, data) == [c EXCEPT !.address_buffer = set_high(@, data)]

\* faulty variant of buffer_high_maybe_pagefix: the dummy read at the
\* un-carried address is pushed whether or not the index carries
buffer_high_always_pagefix(c, data) ==
    push_microcode([c EXCEPT !.address_buffer = set_high(@, data)],
                   Read("address_indexed_y_no_carry", "nop"))

\* IndirectIndexedY::buffer_high_maybe_pagefix
buffer_high_maybe_pagefix(c, data) ==
    LET c1 == buffer_high(c, data)
        indexed_address == index(address(c1)[1], index_y(c1))
        fixed_address == add(address(c1)[1], index_y(c1))
    IN  IF indexed_address # fixed_address
        THEN push_microcode(c1, Read("address_indexed_y_no_carry", "nop"))
        ELSE c1

\* faulty variant of the AbsoluteIndexed closure: no fix-up step is pushed
buffer_high_no_pagefix(c, data, INDEX_X) ==
    [c EXCEPT !.address_buffer = set_high(@, data)]

\* the closure of AbsoluteIndexed<INDEX_X> for Read
buffer_high_pagefix(c, data, INDEX_X) ==
    LET c1 == buffer_high(c, data)
        i == IF INDEX_X THEN index_x(c1) ELSE index_y(c1)
        indexed_address == index(address(c1)[1], i)
        fixed_address == add(address(c1)[1], i)
    IN  IF indexed_address # fixed_address
        THEN push_microcode(c1, Read(IF INDEX_X THEN "address_indexed_x"
                                     ELSE "address_indexed_y_nc", "nop"))
        ELSE c1

\* faulty variant of the taken-branch closure: PC takes the target at once,
\* page crossed or not
branch_no_fix(c, data) == [c EXCEPT !.pc = offset(c.pc, c.operand)]

\* the closure queued by decode_branch for a taken branch
branch(c, data) ==
    LET new_pc == offset(c.pc, c.operand)
    IN  IF High(c.pc) # High(new_pc)
        THEN push_microcode(c, Read("pc_offset_wrapping", "branch_fix"))
        ELSE [c EXCEPT !.pc = new_pc]

\* the fix-up closure pushed by a page-crossing branch
branch_fix(c, data) == [c EXCEPT !.pc = offset(c.pc, c.operand)]

pc_operand(c, data) == [c EXCEPT !.pc = Address(data, c.operand)]

\* ReadInstructions::php, the operation decode_stack queues for opcode $08:
\* its body is empty, the data latch keeps the byte of the read before
php(c) == c.bus_data

\* Accumulator: WithAccumulator<INST>::execute
with_accumulator_read(c, inst) == execute_read(c, inst, c.a)

with_accumulator_read_write(c, inst) ==
    LET r == execute_read_write(c, inst, c.a)
    IN  [r[1] EXCEPT !.a = r[2]]

with_accumulator_write(c, inst) == [c EXCEPT !.a = execute_write(c, inst)]

\* operation(self, self.bus_data) of a read step other than the decode step
apply_read(c, step, data) ==
    CASE step.op = "nop" -> c
      [] step.op = "pull_operand" -> pull_operand(c, data)
      [] step.op = "buffer_low" -> buffer_low(c, data)
      [] step.op = "buffer_high" -> buffer_high(c, data)
      [] step.op = "buffer_high_maybe_pagefix" -> buffer_high_maybe_pagefix(c, data)
      [] step.op = "buffer_high_pagefix_x" -> buffer_high_pagefix(c, data, TRUE)
      [] step.op = "buffer_high_pagefix_y" -> buffer_high_pagefix(c, data, FALSE)
      [] step.op = "branch" -> branch(c, data)
      [] step.op = "branch_fix" -> branch_fix(c, data)
      [] step.op = "pcl" -> PCL_read(c, data)
      [] step.op = "pch" -> PCH_read(c, data)
      [] step.op = "pull_pcl" -> PCL_read(c, data)
      [] step.op = "pull_pch" -> PCH_read(c, data)
      [] step.op = "pc_operand" -> pc_operand(c, data)
      [] step.op = "jmp" -> JMP(c, data)
      [] step.op = "plp" -> PLP(c, data)
      [] step.op = "pla" -> PLA(c, data)
      [] step.op = "execute" -> execute_read(c, step.inst, data)
      [] step.op = "with_accumulator_read" -> with_accumulator_read(c, step.inst)
      [] step.op = "with_accumulator_read_write" -> with_accumulator_read_write(c, step.inst)
      [] step.op = "with_accumulator_write" -> with_accumulator_write(c, step.inst)

\* self.bus_data = operation(self) of a write step: <<cpu, data>>
apply_write(c, step) ==
    CASE step.op = "nop" -> <<c, c.bus_data>>
      [] step.op = "push_pch" -> <<c, PCH_write(c)>>
      [] step.op = "push_pcl" -> <<c, PCL_write(c)>>
      [] step.op = "php" -> <<c, php(c)>>
      [] step.op = "pha" -> <<c, PHA(c)>>
      [] step.op = "execute" -> <<c, execute_write(c, step.inst)>>
      [] step.op = "execute_read_write" -> execute_read_write(c, step.inst, c.bus_data)

(***************************************************************************)
(* decode_opcode as a step operation: the steps it queues, or the panic.   *)
(***************************************************************************)
Queued(steps, by) == [panic |-> "none", steps |-> steps, by |-> by]

Panic(what) == [panic |-> what, steps |-> <<>>, by |-> "famicom"]

\* RP2A03::decode_opcode with the decode_* functions it calls
decode_famicom(c, opcode) ==
    LET d == decode_opcode(opcode)
    IN  CASE d.kind = "branch" -> Queued(decode_branch(c, opcode), "famicom")
          [] d.kind = "jsr" -> Queued(queue_jsr, "famicom")
          [] d.kind = "rti" -> Queued(queue_rti, "famicom")
          [] d.kind = "rts" -> Queued(queue_rts, "famicom")
          [] d.kind = "jmp" -> Queued(queue_jmp, "famicom")
          [] d.kind = "stack" -> Queued(decode_stack(opcode), "famicom")
          [] d.kind = "addressing" ->
               IF decode_addressing(opcode) = "unimplemented"
               THEN Panic("unimplemented")
               ELSE Queued(template(decode_addressing(opcode), d.io, d.inst), "famicom")
          [] d.kind = "unimplemented" -> Panic("unimplemented")

\* the dispatch of the instruction set onto the catalog and the templates
decode_isa(c, opcode) ==
    LET d == isa_opcode(opcode)
    IN  CASE d.kind = "jmp_indirect" -> Queued(queue_jmp_indirect, "isa")
          [] d.kind = "addressing" /\ isa_addressing(opcode) # "unimplemented" ->
               Queued(template(isa_addressing(opcode), d.io, d.inst), "isa")
          [] OTHER -> Panic("unimplemented")

\* what the decode step may do with the opcode: what famicom.rs does, and,
\* where famicom.rs has no arm, also what the instruction set assigns
Decodings(c, opcode) ==
    {decode_famicom(c, opcode)}
    \cup (IF decode_famicom(c, opcode).panic # "none" /\ decode_isa(c, opcode).panic = "none"
          THEN {decode_isa(c, opcode)} ELSE {})

(***************************************************************************)
(* The bus.  cycle() is generic in the Bus: either any device, whose reads *)
(* return any byte and whose writes leave nothing the CPU can observe, or  *)
(* a RAM over the whole address space (RamBank, zero-filled).              *)
(***************************************************************************)
AnyDevice == [ram |-> FALSE, cells |-> <<>>]

RamBank(cells) == [ram |-> TRUE, cells |-> cells]

\* RamBank::read
Peek(m, addr) == IF addr \in DOMAIN m.cells THEN m.cells[addr] ELSE 0

\* RamBank::write
Poke(m, addr, data) ==
    [m EXCEPT !.cells = [a \in DOMAIN m.cells \cup {addr} |->
                            IF a = addr THEN data ELSE m.cells[a]]]

\* bus.read(address): the bytes the read may return
bus_read(m, addr, any) == IF m.ram THEN {Peek(m, addr)} ELSE any

\* bus.write(address, data)
bus_write(m, addr, data) == IF m.ram THEN Poke(m, addr, data) ELSE m

\* RamBank::new(map), a RAM behind the window map (devices.rs); the offsets
\* of the windows the devices build lie within SIZE
RamBank_new(map) == [ram |-> TRUE, map |-> map, cells |-> <<>>]

\* BusDevice::read of RamBank: an Option, the set of its values
RamBank_read(dev, addr) == {Peek(dev, ram_address) : ram_address \in remap(dev.map, addr)}

\* faulty variant of RamBank_write: the byte is stored at the address itself
RamBank_write_unmapped(dev, addr, data) ==
    IF remap(dev.map, addr) # {}
    THEN <<Poke(dev, addr, data), TRUE>>
    ELSE <<dev, FALSE>>

\* BusDevice::write of RamBank: <<device, captured>>
RamBank_write(dev, addr, data) ==
    IF remap(dev.map, addr) # {}
    THEN <<Poke(dev, CHOOSE ram_address \in remap(dev.map, addr) : TRUE, data), TRUE>>
    ELSE <<dev, FALSE>>

\* NromChrMapper::new: the CHR ROM behind the window $0000..$1FFF
NromChrMapper_new(chr_rom) == [ram |-> FALSE, map |-> from_block(0, 3, 0), cells |-> chr_rom]

\* BusDevice::read of NromChrMapper
NromChrMapper_read(dev, addr) ==
    {Peek(dev, chr_address) : chr_address \in remap(dev.map, addr)}

\* BusDevice::write of NromChrMapper: captured, nothing stored
NromChrMapper_write(dev, addr, data) == <<dev, remap(dev.map, addr) # {}>>

\* BusDevice::read / write of the device the PPU bus is built on
Mapper_read(dev, addr) ==
    IF dev.ram THEN RamBank_read(dev, addr) ELSE NromChrMapper_read(dev, addr)

Mapper_write(dev, addr, data) ==
    IF dev.ram THEN RamBank_write(dev, addr, data) ELSE NromChrMapper_write(dev, addr, data)

\* PpuBus::new(mapper)
PpuBus_new(mapper) ==
    [ram |-> FALSE, mapper |-> mapper, vram_bank |-> RamBank_new(from_block(8192, 3, 2))]

\* faulty variant of PpuBus_read: the VRAM is consulted before the mapper
PpuBus_read_vram_first(ppubus, addr) ==
    IF RamBank_read(ppubus.vram_bank, addr) # {}
    THEN RamBank_read(ppubus.vram_bank, addr)
    ELSE Mapper_read(ppubus.mapper, addr)

\* BusDevice::read of PpuBus: mapper.read(address).or_else(vram_bank.read)
PpuBus_read(ppubus, addr) ==
    IF Mapper_read(ppubus.mapper, addr) # {}
    THEN Mapper_read(ppubus.mapper, addr)
    ELSE RamBank_read(ppubus.vram_bank, addr)

\* BusDevice::write of PpuBus: <<bus, captured>>
PpuBus_write(ppubus, addr, data) ==
    LET m == Mapper_write(ppubus.mapper, addr, data)
        v == RamBank_write(ppubus.vram_bank, addr, data)
    IN  IF ~m[2]
        THEN <<[ppubus EXCEPT !.mapper = m[1], !.vram_bank = v[1]], v[2]>>
        ELSE <<[ppubus EXCEPT !.mapper = m[1]], TRUE>>

\* Ppu::new(mapper): the fields the registers PPUSTATUS, PPUADDR and PPUDATA
\* use; status keeps its default, no bit set
Ppu_new(mapper) ==
    [ram |-> FALSE, data_latch |-> 0, bus_address |-> 0, write_swap |-> FALSE,
     bus |-> PpuBus_new(mapper)]

\* Ppu::status
Ppu_status(ppu) == <<[ppu EXCEPT !.write_swap = FALSE], BitAnd(ppu.data_latch, 31)>>

\* Ppu::addr
Ppu_addr(ppu, data) ==
    [ppu EXCEPT !.bus_address = IF ppu.write_swap THEN set_low(@, data) ELSE set_high(@, data),
                !.write_swap = ~ppu.write_swap]

\* Ppu::read_vram: self.bus.read(self.bus_address).unwrap()
Ppu_read_vram(ppu) ==
    IF PpuBus_read(ppu.bus, ppu.bus_address) = {}
    THEN [panic |-> "unwrap", data |-> {}]
    ELSE [panic |-> "none", data |-> PpuBus_read(ppu.bus, ppu.bus_address)]

\* Ppu::write_vram: the bool of bus.write is dropped
Ppu_write_vram(ppu, data) == [ppu EXCEPT !.bus = PpuBus_write(@, ppu.bus_address, data)[1]]

\* BusDevice::read of Ppu on the registers 2, 6 and 7:
\* [panic, data, ppu], data an Option
Ppu_read(ppu, addr) ==
    LET register == remap(from_block(8192, 3, 10), addr)
    IN  CASE register = {} -> [panic |-> "none", data |-> {}, ppu |-> ppu]
          [] register = {2} ->
               [panic |-> "none", data |-> {Ppu_status(ppu)[2]}, ppu |-> Ppu_status(ppu)[1]]
          [] register = {6} -> [panic |-> "none", data |-> {ppu.data_latch}, ppu |-> ppu]
          [] register = {7} ->
               [panic |-> Ppu_read_vram(ppu).panic, data |-> Ppu_read_vram(ppu).data,
                ppu |-> ppu]

\* BusDevice::write of Ppu on the registers 2, 6 and 7: <<ppu, captured>>
Ppu_write(ppu, addr, data) ==
    LET register == remap(from_block(8192, 3, 10), addr)
        latched == [ppu EXCEPT !.data_latch = data]
    IN  CASE register = {} -> <<ppu, FALSE>>
          [] register = {2} -> <<latched, TRUE>>
          [] register = {6} -> <<Ppu_addr(latched, data), TRUE>>
          [] register = {7} -> <<Ppu_write_vram(latched, data), TRUE>>

CycleCap == IF mem.ram THEN MaxRamCycles ELSE MaxCycles

InstructionCap == IF mem.ram THEN MaxRamInstructions ELSE MaxInstructions

(***************************************************************************)
(* State machine                                                           *)
(***************************************************************************)
\* RP2A03 { .. } of new(), before its call of reset()
Fields ==
    [timing |-> <<>>, pc |-> 0, stack |-> 0, address_buffer |-> 0, bus_data |-> 0,
     a |-> 0, x |-> 0, y |-> 0, p |-> FlagDefault, operand |-> 0, cycles |-> 0]

\* the CPUs on which reset() is called: the one new() builds, and CPUs whose
\* index and status registers earlier instructions have changed
Constructed == {[Fields EXCEPT !.x = x, !.y = y, !.p = p] :
                    x \in IndexVals, y \in IndexVals, p \in StatusVals}

Access(rw, addr, data) == [rw |-> rw, addr |-> addr, data |-> data]

\* context while the reset sequence runs; fresh: reset() is the call new()
\* makes on the CPU it has just built
InReset(c, n) ==
    [opcode |-> -1, at |-> c.pc, start |-> c.cycles, p |-> c.p, by |-> "reset", count |-> n,
     alone |-> TRUE, fresh |-> c = Fields]

\* RP2A03::new
Init ==
    /\ \E c \in Constructed :
          /\ cpu = reset(c)
          /\ cur = InReset(c, 0)
    /\ fault = "none"
    /\ bus = <<>>
    /\ mem = AnyDevice

\* RP2A03::cycle is the three actions CycleDecode, CycleRead and CycleWrite,
\* one per kind of step at the head of the queue.  pop_front().unwrap()
\* panics on an empty queue: no action is enabled there.

\* cycle() popping the decode step: fetch an opcode at PC++ and decode it
CycleDecode ==
    /\ fault = "none"
    /\ cpu.cycles < CycleCap
    /\ cpu.timing # <<>>
    /\ Head(cpu.timing).op = "decode_opcode"
    /\ cur.count < InstructionCap
    /\ LET step == Head(cpu.timing)
           c1 == [cpu EXCEPT !.cycles = @ + 1, !.timing = Tail(@)]
           am == address_mode(c1, step.addr)
       IN  \E opcode \in bus_read(mem, am[1], Opcodes) :
             LET c2 == [am[2] EXCEPT !.bus_data = opcode]
             IN  \E d \in Decodings(c2, opcode) :
                   /\ cpu' = enqueue(c2, d.steps)
                   /\ fault' = d.panic
                   /\ bus' = <<Access("Read", am[1], opcode)>>
                   /\ cur' = [opcode |-> opcode, at |-> am[1], start |-> cpu.cycles,
                              p |-> c2.p, by |-> d.by, count |-> cur.count + 1,
                              alone |-> Len(cpu.timing) = 1, fresh |-> FALSE]
    /\ UNCHANGED mem

\* cycle() popping a read step
CycleRead ==
    /\ fault = "none"
    /\ cpu.cycles < CycleCap
    /\ cpu.timing # <<>>
    /\ Head(cpu.timing).dir = "Read"
    /\ Head(cpu.timing).op # "decode_opcode"
    /\ LET step == Head(cpu.timing)
           c1 == [cpu EXCEPT !.cycles = @ + 1, !.timing = Tail(@)]
           am == address_mode(c1, step.addr)
       IN  \E data \in bus_read(mem, am[1], Bytes) :
             /\ cpu' = apply_read([am[2] EXCEPT !.bus_data = data], step, data)
             /\ bus' = Append(bus, Access("Read", am[1], -1))
    /\ UNCHANGED <<fault, cur, mem>>

\* faulty variant of CycleWrite: the step is popped and its operation run,
\* but the bus write is deferred
CycleWrite_deferred ==
    /\ fault = "none"
    /\ cpu.cycles < CycleCap
    /\ cpu.timing # <<>>
    /\ Head(cpu.timing).dir = "Write"
    /\ LET step == Head(cpu.timing)
           c1 == [cpu EXCEPT !.cycles = @ + 1, !.timing = Tail(@)]
           w == apply_write(c1, step)
           c2 == [w[1] EXCEPT !.bus_data = w[2]]
           am == address_mode(c2, step.addr)
       IN  cpu' = am[2]
    /\ UNCHANGED <<fault, bus, cur, mem>>

\* cycle() popping a write step
CycleWrite ==
    /\ fault = "none"
    /\ cpu.cycles < CycleCap
    /\ cpu.timing # <<>>
    /\ Head(cpu.timing).dir = "Write"
    /\ LET step == Head(cpu.timing)
           c1 == [cpu EXCEPT !.cycles = @ + 1, !.timing = Tail(@)]
           w == apply_write(c1, step)
           c2 == [w[1] EXCEPT !.bus_data = w[2]]
           am == address_mode(c2, step.addr)
       IN  /\ cpu' = am[2]
           /\ bus' = Append(bus, Access("Write", am[1], w[2]))
           /\ mem' = bus_write(mem, am[1], w[2])
    /\ UNCHANGED <<fault, cur>>

\* RP2A03::reset called on a running CPU
Reset ==
    /\ fault = "none"
    /\ cpu.cycles < CycleCap
    /\ cpu' = reset(cpu)
    /\ bus' = <<>>
    /\ cur' = InReset(cpu, cur.count)
    /\ UNCHANGED <<fault, mem>>

Next == CycleDecode \/ CycleRead \/ CycleWrite \/ Reset

Spec == Init /\ [][Next]_vars

(***************************************************************************)
(* The CPU on a RAM that holds a program: new(), then cycle() only.        *)
(***************************************************************************)
\* the bytes of a sequence stored from addr on
At(addr, bytes) == [a \in addr..(addr + Len(bytes) - 1) |-> bytes[a - addr + 1]]

\* address of the first opcode of every program
Origin == {49152, 49405}

\* the reset vector at $FFFC/$FFFD naming start
Vector(start) == At(65532, <<start % 256, start \div 256>>)

\* JMP (ptr) at start; the bytes at ptr, at ptr+1 within the page of ptr and
\* at ptr+1 are $34, $12 and $56
JmpIndirectImages ==
    {Vector(start) @@ At(start, <<108, l, h>>)
        @@ (((h * 256) + l) :> 52)
        @@ (((h * 256) + ((l + 1) % 256)) :> 18)
        @@ (((((h * 256) + l) + 1) % 65536) :> 86) :
     start \in Origin, l \in {128, 255}, h \in {2, 127}}

\* PLP or RTI at $C000, and every byte at $01FE, where the first pull after
\* reset() reads
PullImages ==
    {Vector(49152) @@ At(49152, <<opcode>>) @@ (510 :> v) :
     opcode \in {40, 64}, v \in 0..255}

\* JSR target at start, and RTS at target; from $C0FE the return address
\* start+2 lies in the next page, from $C0FD the address after the JSR does
JsrImages ==
    {Vector(start) @@ At(start, <<32, target % 256, target \div 256>>) @@ (target :> 96) :
     start \in {49152, 49405, 49406}, target \in {4660, 767}}

\* opcodes of the zero-page and indexed addressing modes
ZeroPageOpcodes == {165, 133, 6, 36}

ZeroPageXOpcodes == {181, 149, 22}

ZeroPageYOpcodes == {182, 150}

IndirectXOpcodes == {161, 129, 3}

IndirectYOpcodes == {177, 145, 19}

AbsoluteXOpcodes == {189, 157, 30}

AbsoluteYOpcodes == {185, 153, 27}

IndexedOpcodes ==
    ZeroPageOpcodes \cup ZeroPageXOpcodes \cup ZeroPageYOpcodes \cup IndirectXOpcodes
        \cup IndirectYOpcodes \cup AbsoluteXOpcodes \cup AbsoluteYOpcodes

\* an instruction of a zero-page or indexed mode at $C000 with operand byte
\* $7F or $FF (as an absolute base $027F or $02FF); the pointers in the zero
\* page are $FF80 at $7F/$80, $FFFF at $80/$FF and $02FF at $FF/$00; the
\* bytes at $027F, $02FF, $037F and $FF80 are $81
IndexedImages ==
    {Vector(49152) @@ At(49152, <<opcode, operand, 2>>)
        @@ At(127, <<128, 255>>) @@ (255 :> 255) @@ (0 :> 2)
        @@ (639 :> 129) @@ (767 :> 129) @@ (895 :> 129) @@ (65408 :> 129) :
     opcode \in IndexedOpcodes, operand \in {127, 255}}

\* the read-modify-write instructions ASL, ROL, LSR, ROR, DEC, INC in zero
\* page, absolute and absolute,X mode; the opcode after each is the illegal
\* compound SLO, RLA, SRE, RRA, DCP, ISC in the same mode
PlainRmwOpcodes ==
    {6, 38, 70, 102, 198, 230,
     14, 46, 78, 110, 206, 238,
     30, 62, 94, 126, 222, 254}

CompoundRmwOpcodes == {opcode + 1 : opcode \in PlainRmwOpcodes}

\* LDA #a at $C000, then a read-modify-write instruction with operand $80
\* (absolute base $0280) on the byte m, which $0080, $0280 and $0300 hold;
\* $C005 keeps a copy of m
RmwImages ==
    {Vector(49152) @@ At(49152, <<169, a, opcode, 128, 2, m>>)
        @@ (128 :> m) @@ (640 :> m) @@ (768 :> m) :
     opcode \in PlainRmwOpcodes \cup CompoundRmwOpcodes,
     a \in {0, 85, 255}, m \in {0, 1, 127, 128, 255}}

\* DEY, TAY, INY, INX, TYA, TXA, TXS, TAX, TSX, DEX and NOP
RegisterOpcodes == {136, 168, 200, 232, 152, 138, 154, 170, 186, 202, 234}

\* LDA #a at $C000, then one of the register instructions
RegisterImages ==
    {Vector(49152) @@ At(49152, <<169, a, opcode>>) :
     opcode \in RegisterOpcodes, a \in {0, 85, 255}}

Images ==
    JmpIndirectImages \cup PullImages \cup JsrImages \cup IndexedImages \cup RmwImages
        \cup RegisterImages

InitRam ==
    /\ \E c \in Constructed :
          /\ cpu = reset(c)
          /\ cur = InReset(c, 0)
    /\ fault = "none"
    /\ bus = <<>>
    /\ \E image \in Images : mem = RamBank(image)

NextRam == CycleDecode \/ CycleRead \/ CycleWrite

SpecRam == InitRam /\ [][NextRam]_vars

(***************************************************************************)
(* Single functions of the CPU applied to drawn arguments.  cur is the     *)
(* case: the function, the CPU and the arguments x and y it is applied to, *)
(* the number n of applications made and the result of the last one.       *)
(***************************************************************************)
UnitCase(fn, c, x, y) == [fn |-> fn, c0 |-> c, x |-> x, y |-> y, n |-> 0, out |-> 0]

\* S on which the first stack_push or stack_pull is called: the S new()
\* leaves, and the S reset() leaves after its three pushes
StackCases ==
    {UnitCase(fn, [Fields EXCEPT !.stack = s], 0, 0) :
        fn \in {"stack_push", "stack_pull"}, s \in {0, 253}}

\* Address::index and Address + u8: every low byte and every index, in the
\* first page, a middle page and the last page
IndexCases ==
    {UnitCase("index", Fields, (h * 256) + l, i) :
        h \in {0, 127, 255}, l \in 0..255, i \in 0..255}

\* the instructions that end with set_value_flags on the register they load
FlagInstructions ==
    {"LDA", "LDX", "LDY", "ORA", "AND", "EOR", "ADC", "SBC", "PLA",
     "TAX", "TAY", "TSX", "TXA", "TYA", "INX", "INY", "DEX", "DEY"}

\* the instructions that combine A with the data byte
AluInstructions == {"ORA", "AND", "EOR", "ADC", "SBC"}

\* what an instruction takes its value from
Source(inst) ==
    CASE inst \in {"LDA", "LDX", "LDY", "PLA"} -> "data"
      [] inst \in AluInstructions \cup {"TAX", "TAY"} -> "a"
      [] inst \in {"TXA", "INX", "DEX"} -> "x"
      [] inst \in {"TYA", "INY", "DEY"} -> "y"
      [] inst = "TSX" -> "stack"

\* the register an instruction leaves its result in
Destination(inst) ==
    CASE inst \in AluInstructions \cup {"LDA", "PLA", "TXA", "TYA"} -> "a"
      [] inst \in {"LDX", "TAX", "TSX", "INX", "DEX"} -> "x"
      [] inst \in {"LDY", "TAY", "INY", "DEY"} -> "y"

\* values of the registers and of the data byte an instruction does not read
OtherVals == {0, 255}

\* P with D set: N, V, Z, C all clear or all set
DecimalStatusVals == {44, 239}

\* data bytes of ADC and SBC with D set: decimal digits and bytes that are
\* none, with and without a carry between the nibbles and out of the byte
DecimalDataVals == {0, 1, 6, 9, 10, 15, 16, 80, 96, 99, 127, 128, 153, 154, 240, 255}

\* ReadInstruction::execute on registers whose source holds v, the other
\* registers and the data byte w, and the status p
ExecuteCase(inst, v, w, p) ==
    UnitCase("execute",
             [Fields EXCEPT !.a = IF Source(inst) = "a" THEN v ELSE w,
                            !.x = IF Source(inst) = "x" THEN v ELSE w,
                            !.y = IF Source(inst) = "y" THEN v ELSE w,
                            !.stack = IF Source(inst) = "stack" THEN v ELSE w,
                            !.p = p],
             inst,
             IF Source(inst) = "data" THEN v ELSE w)

\* the windows the devices build: APU registers, PPU registers, VRAM, PRG
\* ROM of 16 KiB and of 32 KiB, PRG RAM, CHR ROM; and the internal RAM
DeviceWindows ==
    {<<16384, 11, 0>>, <<8192, 3, 10>>, <<8192, 3, 2>>, <<32768, 1, 1>>, <<32768, 1, 0>>,
     <<24576, 3, 0>>, <<0, 3, 0>>, <<0, 3, 2>>}

\* starts of windows, and the splits of the 16 address bits into prefix,
\* mirror and offset bits; from_block shifts a u16 by prefix_bits +
\* mirror_bits, which is defined for less than 16
Windows ==
    DeviceWindows
    \cup {<<start, prefix, mirror>> :
             start \in {0, 32768, 57344}, prefix \in 0..15, mirror \in 0..15}

\* addresses with one bit set, with one bit clear, and the ends of the
\* windows of the devices
AddressVals ==
    {2 ^ k : k \in 0..15} \cup {65535 - (2 ^ k) : k \in 0..15}
    \cup {0, 65535, 2047, 2055, 6143, 8191, 8199, 16383, 16407, 16415, 16416, 24575, 32767,
           49151, 49152}

\* the 2 KiB internal RAM: $0000, 3 prefix bits, 2 mirror bits
InternalRam == RamBank_new(from_block(0, 3, 2))

\* addresses at the ends of the four mirrors of the internal RAM, and above
RamAddressVals ==
    {0, 1, 2047, 2048, 2049, 4097, 6143, 6145, 8191, 8192, 8193, 10240, 32768, 65535}

\* the mappers a PPU bus is built on: the CHR ROM of an NROM cartridge, whose
\* window ends where the VRAM begins, and RAM banks over $2000..$3FFF and
\* over $2000..$2FFF, which the VRAM window overlaps
PpuMappers ==
    {NromChrMapper_new(At(0, <<90, 165>>) @@ (8191 :> 60)),
     RamBank_new(from_block(8192, 3, 0)),
     RamBank_new(from_block(8192, 4, 0))}

\* addresses of the CHR ROM, of the VRAM and its mirrors, and above both
PpuAddressVals == {0, 1, 8191, 8192, 8193, 10240, 10241, 12287, 12288, 12289, 16383, 16384, 65535}

\* CPU addresses of PPUSTATUS, PPUADDR and PPUDATA, and mirrors of the two
\* last; the address above the PPU window
PpuRegisterVals == {8194, 8198, 8199, 16382, 16383, 16384}

\* bytes written to PPUADDR and PPUDATA: as PPU addresses $0000 and $0020
\* (CHR ROM), $2000 and $2020 (VRAM), and $4000, $4020 and $4040 and so on,
\* which neither decodes
PpuDataVals == {0, 32, 64}

\* the u32 field cycles as <<high half, low half>>: self.cycles += 1. At
\* u32::MAX the addition panics in a build with overflow checks and wraps to
\* 0 in a build without them
count_cycle(cycles) ==
    IF cycles[2] < 65535
    THEN {[panic |-> "none", cycles |-> <<cycles[1], cycles[2] + 1>>]}
    ELSE IF cycles[1] < 65535
         THEN {[panic |-> "none", cycles |-> <<cycles[1] + 1, 0>>]}
         ELSE {[panic |-> "overflow", cycles |-> cycles],
               [panic |-> "none", cycles |-> <<0, 0>>]}

\* the field cycles of the CPU of a system: 0 as new() leaves it, and the
\* values it has 2 and 65537 calls of cycle() before u32::MAX + 1 calls
CycleCounts == {<<0, 0>>, <<65534, 65535>>, <<65535, 65534>>}

\* tick counts the clock sends: 1 by pulse(), the catch-up counts of run()
BatchVals == {1, 5, 12}

\* a system and its clock: x the channel of capacity 1, y the pulses left of
\* the count received, n the ticks sent; out: the field cycles at the start,
\* before the last pulse and now, the ticks received and the calls of cycle(),
\* the counts sent and the counts received, in order; whether the caller
\* holds the Clock and the handle run() returns, where the clock thread and
\* the system thread are, the strong count of the Arc<ClockControls> and
\* its flag cancel, and the parity of the passes of the loop of the clock
\* thread
SystemCase(cycles) ==
    [UnitCase("system", Fields, <<>>, 0) EXCEPT
        !.out = [start |-> cycles, before |-> cycles, cycles |-> cycles,
                 ticks |-> 0, executed |-> 0, sent |-> <<>>, received |-> <<>>,
                 clock_alive |-> TRUE, handle |-> FALSE, clock |-> "idle",
                 system |-> "running", strong |-> 0, cancel |-> FALSE, pass |-> 0]]

\* the decode of the opcode just fetched, on a CPU with status p and w in
\* the other registers
DecodeCase(opcode, p, w) ==
    UnitCase("decode",
             [Fields EXCEPT !.a = w, !.x = w, !.y = w, !.stack = w, !.p = p,
                            !.bus_data = opcode],
             opcode, 0)

UnitCases == StackCases \cup IndexCases

\* a stack or index case, or ReadInstruction::execute with every value of the
\* source and both values of every flag, and with every data byte for the
\* instructions that combine A with it
InitUnit ==
    /\ \/ \E case \in UnitCases : cur = case
       \/ \E w \in Windows, a \in AddressVals :
             /\ w[2] + w[3] < 16
             /\ cur = UnitCase("remap", Fields, w, a)
       \/ \E inst \in AluInstructions, v \in 0..255, w \in 0..255, p \in StatusVals :
             cur = ExecuteCase(inst, v, w, p)
       \/ \E inst \in {"ADC", "SBC"}, v \in 0..255, w \in DecimalDataVals,
             p \in DecimalStatusVals :
             cur = ExecuteCase(inst, v, w, p)
       \/ \E inst \in FlagInstructions \ AluInstructions, v \in 0..255, w \in OtherVals,
             p \in StatusVals :
             cur = ExecuteCase(inst, v, w, p)
       \/ \E a \in RamAddressVals, data \in {0, 127, 255}, b \in RamAddressVals :
             cur = UnitCase("ram", Fields, <<a, data>>, b)
       \/ \E mapper \in PpuMappers, a \in PpuAddressVals, data \in {127, 255},
             b \in PpuAddressVals :
             cur = UnitCase("ppubus", Fields, <<a, data, mapper>>, b)
       \/ cur = UnitCase("ppu", Fields, 0, 0)
       \/ \E cycles \in CycleCounts : cur = SystemCase(cycles)
       \/ \E opcode \in {op \in 0..255 : op % 32 = 16}, p \in 0..255, w \in OtherVals :
             cur = DecodeCase(opcode, p, w)
    /\ cpu = cur.c0
    /\ fault = "none"
    /\ bus = <<>>
    /\ mem = CASE cur.fn = "ram" -> InternalRam
               [] cur.fn = "ppubus" -> PpuBus_new(cur.x[3])
               [] cur.fn = "ppu" ->
                    Ppu_new(NromChrMapper_new(At(0, <<90, 165>>) @@ (8191 :> 60)))
               [] OTHER -> AnyDevice

\* one more call of stack_push, as the address function of a step
ApplyStackPush ==
    /\ cur.fn = "stack_push"
    /\ cur.n < MaxPushes
    /\ cpu' = stack_push(cpu)[2]
    /\ cur' = [cur EXCEPT !.n = @ + 1, !.out = stack_push(cpu)[1]]
    /\ UNCHANGED <<fault, bus, mem>>

\* one more call of stack_pull, as the address function of a step
ApplyStackPull ==
    /\ cur.fn = "stack_pull"
    /\ cur.n < MaxPushes
    /\ cpu' = stack_pull(cpu)[2]
    /\ cur' = [cur EXCEPT !.n = @ + 1, !.out = stack_pull(cpu)[1]]
    /\ UNCHANGED <<fault, bus, mem>>

\* address.index(i) and address + i
ApplyIndex ==
    /\ cur.fn = "index"
    /\ cur.n = 0
    /\ cur' = [cur EXCEPT !.n = 1, !.out = <<index(cur.x, cur.y), add(cur.x, cur.y)>>]
    /\ UNCHANGED <<cpu, fault, bus, mem>>

\* INST::execute(registers, data)
ApplyExecute ==
    /\ cur.fn = "execute"
    /\ cur.n = 0
    /\ cpu' = execute_read(cpu, cur.x, cur.y)
    /\ cur' = [cur EXCEPT !.n = 1]
    /\ UNCHANGED <<fault, bus, mem>>

\* from_block(start, prefix_bits, mirror_bits).remap(address)
ApplyRemap ==
    /\ cur.fn = "remap"
    /\ cur.n = 0
    /\ LET map == from_block(cur.x[1], cur.x[2], cur.x[3])
       IN  cur' = [cur EXCEPT !.n = 1, !.out = [map |-> map, some |-> remap(map, cur.y)]]
    /\ UNCHANGED <<cpu, fault, bus, mem>>

\* ram.write(a, data)
ApplyRamWrite ==
    /\ cur.fn = "ram"
    /\ cur.n = 0
    /\ LET w == RamBank_write(mem, cur.x[1], cur.x[2])
       IN  /\ mem' = w[1]
           /\ cur' = [cur EXCEPT !.n = 1, !.out = [captured |-> w[2], read |-> {}]]
    /\ UNCHANGED <<cpu, fault, bus>>

\* ram.read(b), after the write
ApplyRamRead ==
    /\ cur.fn = "ram"
    /\ cur.n = 1
    /\ cur' = [cur EXCEPT !.n = 2, !.out.read = RamBank_read(mem, cur.y)]
    /\ UNCHANGED <<cpu, fault, bus, mem>>

\* bus.write(a, data) on the PPU bus
ApplyPpuBusWrite ==
    /\ cur.fn = "ppubus"
    /\ cur.n = 0
    /\ LET w == PpuBus_write(mem, cur.x[1], cur.x[2])
       IN  /\ mem' = w[1]
           /\ cur' = [cur EXCEPT !.n = 1, !.out = [captured |-> w[2], read |-> {}]]
    /\ UNCHANGED <<cpu, fault, bus>>

\* bus.read(b) on the PPU bus, after the write
ApplyPpuBusRead ==
    /\ cur.fn = "ppubus"
    /\ cur.n = 1
    /\ cur' = [cur EXCEPT !.n = 2, !.out.read = PpuBus_read(mem, cur.y)]
    /\ UNCHANGED <<cpu, fault, bus, mem>>

\* ppu.write(addr, data); cur keeps the access and the PPU before it
ApplyPpuWrite ==
    /\ cur.fn = "ppu"
    /\ fault = "none"
    /\ cur.n < MaxPpuAccesses
    /\ \E addr \in PpuRegisterVals, data \in PpuDataVals :
          /\ mem' = Ppu_write(mem, addr, data)[1]
          /\ cur' = [cur EXCEPT !.n = @ + 1, !.x = <<"write", addr, data>>, !.y = mem,
                                 !.out = [captured |-> Ppu_write(mem, addr, data)[2],
                                          read |-> {}]]
    /\ UNCHANGED <<cpu, fault, bus>>

\* ppu.read(addr)
ApplyPpuRead ==
    /\ cur.fn = "ppu"
    /\ fault = "none"
    /\ cur.n < MaxPpuAccesses
    /\ \E addr \in PpuRegisterVals :
          /\ mem' = Ppu_read(mem, addr).ppu
          /\ fault' = Ppu_read(mem, addr).panic
          /\ cur' = [cur EXCEPT !.n = @ + 1, !.x = <<"read", addr, 0>>, !.y = mem,
                                 !.out = [captured |-> FALSE,
                                          read |-> Ppu_read(mem, addr).data]]
    /\ UNCHANGED <<cpu, bus>>

\* one clone of the Arc<ClockControls> is dropped: Drop for ClockControls
\* runs, and stores true in cancel, when it was the last
ArcRelease(out) ==
    [out EXCEPT !.strong = @ - 1, !.cancel = @ \/ out.strong = 1]

\* Clock::pulse: oscillator.send(1), which waits while the channel holds a
\* count, and returns an Err the caller gets when the receiver is gone
Clock_pulse ==
    /\ cur.fn = "system"
    /\ fault = "none"
    /\ cur.out.clock_alive
    /\ cur.out.system = "running"
    /\ cur.x = <<>>
    /\ cur.n + 1 <= MaxTicks
    /\ cur' = [cur EXCEPT !.x = <<1>>, !.n = @ + 1, !.out.sent = Append(@, 1)]
    /\ UNCHANGED <<cpu, fault, bus, mem>>

\* Clock::run: the Arc the caller gets and its clone for the thread spawned
Clock_run ==
    /\ cur.fn = "system"
    /\ cur.out.clock_alive
    /\ cur.out.clock = "idle"
    /\ cur' = [cur EXCEPT !.out.clock = "running", !.out.handle = TRUE,
                           !.out.strong = 2]
    /\ UNCHANGED <<cpu, fault, bus, mem>>

\* one pass of the loop of the thread of Clock::run: it ends when cancel is
\* set; with catchup_cycles = 0 nothing is sent; oscillator.send(count)
\* .unwrap() panics when the receiver is gone and waits while the channel
\* holds a count. The thread drops its clone of the Arc when it ends
Clock_send ==
    /\ cur.fn = "system"
    /\ cur.out.clock = "running"
    /\ IF cur.out.cancel
       THEN cur' = [cur EXCEPT !.out = [ArcRelease(@) EXCEPT !.clock = "exited"]]
       ELSE IF fault # "none" \/ cur.out.system # "running"
            THEN cur' = [cur EXCEPT !.out = [ArcRelease(@) EXCEPT !.clock = "panicked"]]
            ELSE \/ cur' = [cur EXCEPT !.out.pass = 1 - @]
                 \/ /\ cur.x = <<>>
                    /\ \E count \in BatchVals :
                          /\ cur.n + count <= MaxTicks
                          /\ cur' = [cur EXCEPT !.x = <<count>>, !.n = @ + count,
                                                 !.out.sent = Append(@, count),
                                                 !.out.pass = 1 - @]
    /\ UNCHANGED <<cpu, fault, bus, mem>>

\* the caller drops the handle Clock::run has returned
ClockControls_drop ==
    /\ cur.fn = "system"
    /\ cur.out.handle
    /\ cur' = [cur EXCEPT !.out = [ArcRelease(@) EXCEPT !.handle = FALSE]]
    /\ UNCHANGED <<cpu, fault, bus, mem>>

\* the caller drops the Clock, and with it the sender it owns
Clock_drop ==
    /\ cur.fn = "system"
    /\ cur.out.clock_alive
    /\ cur' = [cur EXCEPT !.out.clock_alive = FALSE]
    /\ UNCHANGED <<cpu, fault, bus, mem>>

\* a sender of the channel is left: the one of the Clock, or its clone in
\* the thread of Clock::run
SenderLeft == cur.out.clock_alive \/ cur.out.clock = "running"

\* faulty variant of System_exit: the Err of recv() is unwrapped
System_exit_unwrap ==
    /\ cur.fn = "system"
    /\ fault = "none"
    /\ cur.out.system = "running"
    /\ cur.y = 0
    /\ cur.x = <<>>
    /\ ~SenderLeft
    /\ fault' = "unwrap"
    /\ UNCHANGED <<cpu, bus, mem, cur>>

\* System::run: clock_signal.recv() is an Err once the channel is empty and
\* no sender is left, which ends the while let and the thread
System_exit ==
    /\ cur.fn = "system"
    /\ fault = "none"
    /\ cur.out.system = "running"
    /\ cur.y = 0
    /\ cur.x = <<>>
    /\ ~SenderLeft
    /\ cur' = [cur EXCEPT !.out.system = "done"]
    /\ UNCHANGED <<cpu, fault, bus, mem>>

\* System::run: clock_signal.recv() once the pulses of the count before are
\* done
System_recv ==
    /\ cur.fn = "system"
    /\ fault = "none"
    /\ cur.y = 0
    /\ cur.x # <<>>
    /\ cur' = [cur EXCEPT !.x = <<>>, !.y = Head(cur.x),
                           !.out.ticks = @ + Head(cur.x),
                           !.out.received = Append(@, Head(cur.x))]
    /\ UNCHANGED <<cpu, fault, bus, mem>>

\* faulty variant of System_clock_pulse: the loop does not stop at the count
\* received
System_clock_pulse_unpaced ==
    /\ cur.fn = "system"
    /\ fault = "none"
    /\ cur.out.received # <<>>
    /\ \E counted \in count_cycle(cur.out.cycles) :
          /\ fault' = counted.panic
          /\ cur' = [cur EXCEPT !.y = IF @ > 0 THEN @ - 1 ELSE 0,
                                 !.out.before = cur.out.cycles,
                                 !.out.cycles = counted.cycles,
                                 !.out.executed = IF @ < MaxTicks THEN @ + 1 ELSE @]
    /\ UNCHANGED <<cpu, bus, mem>>

\* System::clock_pulse, one pass of the loop of System::run: cpu.cycle(bus),
\* of which the count of the cycle is kept
System_clock_pulse ==
    /\ cur.fn = "system"
    /\ fault = "none"
    /\ cur.y > 0
    /\ \E counted \in count_cycle(cur.out.cycles) :
          /\ fault' = counted.panic
          /\ cur' = [cur EXCEPT !.y = @ - 1,
                                 !.out.before = cur.out.cycles,
                                 !.out.cycles = counted.cycles,
                                 !.out.executed = @ + 1]
    /\ UNCHANGED <<cpu, bus, mem>>

\* decode_opcode(opcode), the post-function of the decode step
ApplyDecode ==
    /\ cur.fn = "decode"
    /\ cur.n = 0
    /\ cpu' = enqueue(cpu, decode_famicom(cpu, cur.x).steps)
    /\ fault' = decode_famicom(cpu, cur.x).panic
    /\ cur' = [cur EXCEPT !.n = 1]
    /\ UNCHANGED <<bus, mem>>

NextUnit ==
    \/ ApplyDecode
    \/ ApplyStackPush \/ ApplyStackPull \/ ApplyIndex \/ ApplyExecute \/ ApplyRemap
    \/ ApplyRamWrite \/ ApplyRamRead \/ ApplyPpuBusWrite \/ ApplyPpuBusRead
    \/ ApplyPpuWrite \/ ApplyPpuRead
    \/ Clock_pulse \/ Clock_run \/ Clock_send \/ ClockControls_drop \/ Clock_drop
    \/ System_recv \/ System_clock_pulse \/ System_exit

SpecUnit == InitUnit /\ [][NextUnit]_vars

\* a system, its clock and the caller that holds the Clock and the handle of
\* Clock::run
InitSystem ==
    /\ \E cycles \in CycleCounts : cur = SystemCase(cycles)
    /\ cpu = cur.c0
    /\ fault = "none"
    /\ bus = <<>>
    /\ mem = AnyDevice

NextSystem ==
    \/ Clock_pulse \/ Clock_run \/ Clock_send \/ ClockControls_drop \/ Clock_drop
    \/ System_recv \/ System_clock_pulse \/ System_exit

\* the clock thread and the system thread are scheduled again and again; the
\* caller is not bound to call or to drop anything
SpecSystem ==
    /\ InitSystem
    /\ [][NextSystem]_vars
    /\ WF_vars(Clock_send)
    /\ WF_vars(System_recv) /\ WF_vars(System_clock_pulse) /\ WF_vars(System_exit)

(***************************************************************************)
(* Properties                                                              *)
(***************************************************************************)
\* the instruction in cur has run all its steps: only the decode step is left
Done == fault = "none" /\ cur.opcode >= 0 /\ cpu.timing = <<decode_step>>

\* cycles of the instruction in cur so far, its opcode fetch included
Elapsed == cpu.cycles - cur.start

\* C1: from reset() onward, whenever cycle() has returned, the microcode
\* queue is non-empty and its last element is the decode step (a read at
\* PC++ decoded by decode_opcode), also while a page-cross fix-up step sits
\* at its head; so cycle() never pops from an empty queue.
C1_QueueEndsWithDecode ==
    fault = "none" =>
        /\ cpu.timing # <<>>
        /\ cpu.timing[Len(cpu.timing)] = Read("pc_inc", "decode_opcode")

\* a branch has pushed its fix-up step at the head, the decode step is last
C1_FixupAtHead ==
    /\ fault = "none"
    /\ Len(cpu.timing) = 2
    /\ Head(cpu.timing).op = "branch_fix"
    /\ cpu.timing[2] = Read("pc_inc", "decode_opcode")

\* C2: an opcode fetch happens only at an instruction boundary: the decode
\* step is never ahead of another step in the queue, and whenever it was
\* popped it was the only step, so no microstep of an instruction is pending
\* at, or runs after, the fetch of the next opcode.
C2_DecodeAtBoundary ==
    /\ \A i \in 1..Len(cpu.timing) :
          cpu.timing[i].op = "decode_opcode" => i = Len(cpu.timing)
    /\ cur.opcode >= 0 => cur.alone

\* an opcode has just been fetched by a decode step that stood alone, after
\* the seven steps of the reset sequence had run
C2_FetchedAlone ==
    /\ fault = "none"
    /\ cur.opcode >= 0
    /\ cur.alone
    /\ Len(bus) = 1
    /\ cur.start >= 7

\* C4: each cycle() pops exactly one microstep (the rest of the queue stays,
\* behind at most one step pushed at the head and before the steps queued at
\* the tail) and performs exactly one bus access, a read for a read step and
\* a write for a write step, in that same cycle.
C4_OneStepOneAccess ==
    [][cpu'.cycles # cpu.cycles =>
         /\ cpu'.cycles = cpu.cycles + 1
         /\ cpu.timing # <<>>
         /\ \/ /\ Len(bus') = Len(bus) + 1
               /\ SubSeq(bus', 1, Len(bus)) = bus
            \/ /\ Len(bus') = 1
               /\ Head(cpu.timing).op = "decode_opcode"
         /\ bus'[Len(bus')].rw = Head(cpu.timing).dir
         /\ \E k \in 0..1 :
               /\ Len(cpu'.timing) >= k + Len(cpu.timing) - 1
               /\ SubSeq(cpu'.timing, k + 1, k + Len(cpu.timing) - 1) = Tail(cpu.timing)
      ]_vars

\* a write step has just run: the access ending the log is a write, and the
\* instruction has made as many accesses as it has taken cycles
C4_WriteCycle ==
    /\ fault = "none"
    /\ Len(bus) >= 2
    /\ bus[Len(bus)].rw = "Write"
    /\ Len(bus) = Elapsed

\* C3: every opcode byte, in every register state, decodes to a microstep
\* sequence that runs to its final decode step without reaching an
\* unimplemented, todo or unreachable arm: the emulator never panics.
C3_NoUnimplemented == fault = "none"

\* the eight conditional branches
BranchOpcodes == {16, 48, 80, 112, 144, 176, 208, 240}

\* the 6502's branch condition: bits 7-6 of the opcode select N, V, C or Z,
\* bit 5 the value the flag must have
BranchTaken(opcode, p) ==
    LET flag == CASE opcode \div 64 = 0 -> 128
                  [] opcode \div 64 = 1 -> 64
                  [] opcode \div 64 = 2 -> 1
                  [] opcode \div 64 = 3 -> 2
    IN  (BitAnd(p, flag) # 0) <=> ((opcode \div 32) % 2 = 1)

\* the address following the operand of the instruction in cur
AfterOperand == (cur.at + 2) % 65536

\* target of the branch in cur, once its operand is fetched
BranchTarget == (AfterOperand + SignExtend(cpu.operand) + 65536) % 65536

\* C5: a conditional branch takes 2 cycles when not taken, 3 when taken with
\* the target in the page of the address following the operand, 4 when taken
\* with the target in another page, counted from its opcode fetch up to, not
\* including, the next opcode fetch.
C5_BranchCycles ==
    Done /\ cur.opcode \in BranchOpcodes =>
        Elapsed = IF ~BranchTaken(cur.opcode, cur.p) THEN 2
                  ELSE IF BranchTarget \div 256 = AfterOperand \div 256 THEN 3
                  ELSE 4

\* a taken branch to another page has run its four cycles
C5_CrossedBranchDone ==
    /\ Done
    /\ cur.opcode \in BranchOpcodes
    /\ BranchTaken(cur.opcode, cur.p)
    /\ BranchTarget \div 256 # AfterOperand \div 256
    /\ Elapsed = 4

\* C6: for a branch whose operand o is fetched at p, PC ends at p+1 when not
\* taken and at (p+1) + sign_extend(o) modulo 2^16 when taken; when the high
\* byte changes, the extra cycle reads at (high(p+1), (low(p+1) + o) mod 256),
\* and PC still holds p+1 until that read is done.
C6_BranchPC ==
    /\ Done /\ cur.opcode \in BranchOpcodes =>
          /\ cpu.pc = IF BranchTaken(cur.opcode, cur.p) THEN BranchTarget ELSE AfterOperand
          /\ BranchTaken(cur.opcode, cur.p) /\ BranchTarget \div 256 # AfterOperand \div 256 =>
                /\ Len(bus) = 4
                /\ bus[4].rw = "Read"
                /\ bus[4].addr = ((AfterOperand \div 256) * 256)
                                 + (((AfterOperand % 256) + cpu.operand) % 256)
    /\ fault = "none" /\ Head(cpu.timing).op = "branch_fix" => cpu.pc = AfterOperand

\* a taken forward branch into the next page is done: PC holds the target
C6_ForwardCrossDone ==
    /\ Done
    /\ cur.opcode \in BranchOpcodes
    /\ cpu.operand < 128
    /\ Len(bus) = 4
    /\ cpu.pc = BranchTarget
    /\ cpu.pc \div 256 = (AfterOperand \div 256 + 1) % 256

\* cycle counts of the 6502 for the opcodes of Opcodes in Implied,
\* Accumulator, Immediate, Zero Page, Zero Page,X/Y and Absolute mode
C7_Cycles(opcode) ==
    CASE opcode \in {24, 232, 234, 10, 169, 162} -> 2
      [] opcode \in {165, 133, 36} -> 3
      [] opcode = 6 -> 5
      [] opcode \in {181, 149, 182, 150} -> 4
      [] opcode = 22 -> 6
      [] opcode \in {173, 141} -> 4
      [] opcode \in {14, 238} -> 6

C7_Opcodes ==
    {24, 232, 234, 10, 169, 162, 165, 133, 36, 6, 181, 149, 182, 150, 22, 173, 141, 14, 238}

IndexedBase == cpu.address_buffer

IndexUsed == IF cur.opcode \in {189, 157, 30} THEN cpu.x ELSE cpu.y

IndexCarries == (IndexedBase % 256) + IndexUsed >= 256

Uncarried ==
    ((IndexedBase \div 256) * 256) + (((IndexedBase % 256) + IndexUsed) % 256)

Carried == (IndexedBase + IndexUsed) % 65536

Ram(addr) == Peek(mem, addr % 65536)

\* the pointer that follows the opcode of the instruction in cur
Pointer == Address(Ram(cur.at + 2), Ram(cur.at + 1))

\* the address after Pointer in the page of Pointer
PointerNext == ((Pointer \div 256) * 256) + (((Pointer % 256) + 1) % 256)

\* C11: an indirect JMP is decoded and run; it reads the target low byte at
\* its pointer and the target high byte at the next address of the pointer's
\* page, so JMP ($xxFF) takes the high byte from $xx00, and 6C FF 02 with
\* $34 at $02FF and $12 at $0200 sets PC to $1234.
C11_IndirectJumpWraps ==
    mem.ram /\ cur.opcode = 108 =>
        /\ fault = "none"
        /\ Done =>
              /\ bus[4] = Access("Read", Pointer, -1)
              /\ bus[5] = Access("Read", PointerNext, -1)
              /\ cpu.pc = Address(Ram(PointerNext), Ram(Pointer))

\* the reset sequence is running, or has just run its last step
Resetting == cur.opcode = -1

\* S after n cycles of the reset sequence: 0, less one for each of the
\* cycles 3, 4 and 5
ResetStack(n) == IF n <= 2 THEN 0 ELSE IF n >= 5 THEN 253 ELSE 258 - n

\* the state n cycles after reset(): n reads, no write
ResetState ==
    Resetting =>
        /\ Elapsed <= 7
        /\ Len(bus) = Elapsed
        /\ \A i \in 1..Len(bus) : bus[i].rw = "Read"
        /\ cpu.stack = ResetStack(Elapsed)
        /\ Elapsed >= 6 => bus[6].addr = 65532
        /\ Elapsed = 6 => Low(cpu.pc) = cpu.bus_data
        /\ Elapsed = 7 => bus[7].addr = 65533 /\ High(cpu.pc) = cpu.bus_data

\* C12: after reset() the first 7 cycles are bus reads only, S is decremented
\* three times during them (in the cycles 3, 4 and 5), the 6th cycle reads
\* $FFFC into the low byte of PC, the 7th reads $FFFD into the high byte and
\* keeps the low byte, and the 8th cycle fetches the first opcode at the
\* address these two bytes form.
C12_ResetSequence ==
    [][/\ ResetState'
       /\ Resetting /\ cpu'.cycles # cpu.cycles =>
             /\ Elapsed = 6 => Low(cpu'.pc) = Low(cpu.pc)
             /\ Elapsed < 7 => Resetting'
             /\ Elapsed = 7 =>
                   /\ cur'.opcode >= 0
                   /\ cur'.at = cpu.pc
                   /\ bus' = <<Access("Read", cpu.pc, cur'.opcode)>>
      ]_vars

\* the first opcode has been fetched at $FE7F, the address formed by a low
\* byte $7F and a high byte $FE, seven cycles after a reset() with S = $FD
C12_FirstFetch ==
    /\ cur.opcode >= 0
    /\ cur.start >= 7
    /\ Len(bus) = 1
    /\ cur.at = 65151
    /\ cpu.stack = 253

\* the reset vector stored in the RAM at $FFFC/$FFFD
ResetVector == Address(Ram(65533), Ram(65532))

\* C13: for the CPU new() has built, when the cycle counter is 7 (the reset
\* sequence has run, no opcode is fetched yet) A = 0, X = 0, Y = 0, P = $24,
\* S = $FD and PC is the reset vector stored at $FFFC/$FFFD.
C13_FirstTraceLine ==
    mem.ram /\ cur.fresh /\ Resetting /\ cpu.cycles = 7 =>
        /\ cpu.a = 0 /\ cpu.x = 0 /\ cpu.y = 0
        /\ cpu.p = 36
        /\ cpu.stack = 253
        /\ cpu.pc = ResetVector

\* the CPU new() has built has run its seven reset cycles on a RAM whose
\* reset vector is $C000, as nestest's is
C13_AtC000 ==
    /\ mem.ram /\ cur.fresh /\ Resetting
    /\ cpu.cycles = 7
    /\ ResetVector = 49152
    /\ cpu.timing = <<decode_step>>

\* one call of stack_push or of stack_pull
StackStep ==
    /\ cur.fn = "stack_push" =>
          /\ cur'.out = 256 + cpu.stack
          /\ cpu'.stack = IF cpu.stack = 0 THEN 255 ELSE cpu.stack - 1
          /\ cur'.out \in 256..511
    /\ cur.fn = "stack_pull" =>
          /\ cpu'.stack = IF cpu.stack = 255 THEN 0 ELSE cpu.stack + 1
          /\ cur'.out = 256 + cpu'.stack
          /\ cur'.out \in 256..511

\* C14: a stack push accesses $0100|S and then decrements S modulo 256, a
\* stack pull increments S modulo 256 and then accesses $0100|S; so every
\* stack address lies in $0100..$01FF, and 256 consecutive pushes, or
\* pulls, return S to the value it started from.
C14_StackWraps ==
    /\ [][StackStep]_vars
    /\ [](cur.fn \in {"stack_push", "stack_pull"} /\ cur.n = 256 =>
             cpu.stack = cur.c0.stack)

\* 256 pushes from S = $FD have been made: the last one at $01FE, and S is
\* $FD again
C14_FullTurn ==
    /\ cur.fn = "stack_push"
    /\ cur.n = 256
    /\ cur.c0.stack = 253
    /\ cur.out = 510
    /\ cpu.stack = 253

\* the byte PLP, or the status pull of RTI, has pulled: RTI pulls two more
\* bytes after it
PulledStatus ==
    Ram(256 + (IF cur.opcode = 64 THEN (cpu.stack + 254) % 256 ELSE cpu.stack))

\* C15: after PLP, and after the status pull of RTI, bits 4 (B) and 5 of P
\* are those P had before the pull, and the other six bits of P are those of
\* the byte pulled from the stack, whatever that byte.
C15_PullKeepsBreakBits ==
    mem.ram /\ Done /\ cur.opcode \in {40, 64} =>
        /\ BitAnd(cpu.p, 48) = BitAnd(cur.p, 48)
        /\ BitAnd(cpu.p, 207) = BitAnd(PulledStatus, 207)

\* RTI has pulled the status byte $10 into a P that was $24: P is $20
C15_ReturnPulledBreak ==
    /\ mem.ram /\ Done
    /\ cur.opcode = 64
    /\ cur.p = 36
    /\ PulledStatus = 16
    /\ cpu.p = 32

\* C16: PHP writes to the stack the byte P OR $30 (bits 4 and 5 set, the
\* other bits those of P) and leaves P itself unchanged.
C16_PushedStatus ==
    Done /\ cur.opcode = 8 =>
        /\ bus[3] = Access("Write", 256 + ((cpu.stack + 1) % 256), BitOr(cur.p, 48))
        /\ cpu.p = cur.p

\* C17: a JSR whose opcode is at p pushes high(p+2) and then low(p+2), and
\* sets PC to its 16-bit operand; the RTS that then pulls these two bytes
\* sets PC to p+3; after the pair S is what it was before the JSR ($FD, the
\* JSR being the first instruction after reset()).
C17_CallAndReturn ==
    /\ mem.ram /\ Done /\ cur.opcode = 32 =>
          /\ bus[4] = Access("Write", 256 + ((cpu.stack + 2) % 256),
                             ((cur.at + 2) % 65536) \div 256)
          /\ bus[5] = Access("Write", 256 + ((cpu.stack + 1) % 256),
                             ((cur.at + 2) % 65536) % 256)
          /\ cpu.pc = Address(Ram(cur.at + 2), Ram(cur.at + 1))
    /\ mem.ram /\ Done /\ cur.opcode = 96 /\ cur.count = 2 /\ Ram(ResetVector) = 32 =>
          /\ cpu.pc = (ResetVector + 3) % 65536
          /\ cpu.stack = 253
          /\ Ram(509) = ((ResetVector + 2) % 65536) \div 256
          /\ Ram(508) = ((ResetVector + 2) % 65536) % 256

\* the RTS that follows the JSR at $C0FD has returned to $C100, S is $FD
C17_ReturnedAcrossPage ==
    /\ mem.ram /\ Done
    /\ cur.opcode = 96
    /\ cur.count = 2
    /\ ResetVector = 49405
    /\ Ram(49405) = 32
    /\ cpu.pc = 49408
    /\ cpu.stack = 253

\* C18: for an address a and an 8-bit i, a.index(i) has the high byte of a
\* and the low byte (low(a) + i) mod 256, with no carry into the high byte;
\* a + i is (a + i) mod 2^16, whose high byte differs from that of a exactly
\* when low(a) + i > 255.
C18_IndexAndAdd ==
    cur.fn = "index" /\ cur.n = 1 =>
        /\ cur.out[1] \div 256 = cur.x \div 256
        /\ cur.out[1] % 256 = ((cur.x % 256) + cur.y) % 256
        /\ cur.out[2] = (cur.x + cur.y) % 65536
        /\ (cur.out[2] \div 256 # cur.x \div 256) <=> ((cur.x % 256) + cur.y > 255)

\* $FFFF indexed by 1 is $FF00, and $FFFF + 1 is $0000
C18_LastAddress ==
    /\ cur.fn = "index" /\ cur.n = 1
    /\ cur.x = 65535 /\ cur.y = 1
    /\ cur.out = <<65280, 0>>

\* the index register an indexed mode of the instruction in cur adds
IndexOf(opcode) ==
    IF opcode \in ZeroPageXOpcodes \cup IndirectXOpcodes \cup AbsoluteXOpcodes
    THEN cpu.x ELSE cpu.y

\* the bus accesses of the instruction in cur from the n-th on
AccessesFrom(n) == {bus[i] : i \in n..Len(bus)}

Left ==
    CASE Destination(cur.x) = "a" -> cpu.a
      [] Destination(cur.x) = "x" -> cpu.x
      [] Destination(cur.x) = "y" -> cpu.y

\* C20: after LDA, LDX, LDY, ORA, AND, EOR, ADC, SBC, PLA, TAX, TAY, TSX,
\* TXA, TYA, INX, INY, DEX and DEY, Z is set iff the 8-bit value left in the
\* destination register is 0, and N is set iff bit 7 of that value is 1.
C20_FlagClosure ==
    (cur.fn = "execute" /\ cur.n = 1) =>
        /\ Left \in 0..255
        /\ contains(cpu.p, FlagZ) <=> (Left = 0)
        /\ contains(cpu.p, FlagN) <=> (Left >= 128)

\* ADC of $FF to A = $01 with C, Z and N clear before: A is $00, Z is set
\* and N is clear
C20_AdcWrapsToZero ==
    /\ cur.fn = "execute" /\ cur.n = 1 /\ cur.x = "ADC"
    /\ cur.c0.a = 1 /\ cur.y = 255 /\ cur.c0.p = 36
    /\ cpu.a = 0
    /\ contains(cpu.p, FlagZ) /\ ~contains(cpu.p, FlagN)

\* the case in cur is the instruction inst, and it has been executed
Executed(inst) == cur.fn = "execute" /\ cur.n = 1 /\ cur.x = inst

\* carry-in of the case in cur
CarryIn == cur.c0.p % 2

\* bit 7 of a byte
Sign(b) == b \div 128

\* C21: ADC with accumulator A, data M and carry-in c leaves
\* A' = (A + M + c) mod 256, sets C iff A + M + c > 255, and sets V iff A and
\* M have the same sign bit and A' the opposite one; A = $50, M = $50, c = 0
\* gives A' = $A0, C = 0, V = 1, N = 1, Z = 0.
C21_AdcSumCarryOverflow ==
    Executed("ADC") =>
        LET A == cur.c0.a
            M == cur.y
            sum == A + M + CarryIn
        IN  /\ cpu.a = sum % 256
            /\ contains(cpu.p, FlagC) <=> (sum > 255)
            /\ contains(cpu.p, FlagV) <=> (Sign(A) = Sign(M) /\ Sign(cpu.a) # Sign(A))
            /\ (A = 80 /\ M = 80 /\ CarryIn = 0) =>
                  /\ cpu.a = 160
                  /\ ~contains(cpu.p, FlagC) /\ contains(cpu.p, FlagV)
                  /\ contains(cpu.p, FlagN) /\ ~contains(cpu.p, FlagZ)

\* ADC of $50 to A = $50 with carry clear has left A = $A0 with V and N set
C21_ScenarioC ==
    /\ Executed("ADC")
    /\ cur.c0.a = 80 /\ cur.y = 80 /\ CarryIn = 0
    /\ cpu.a = 160 /\ contains(cpu.p, FlagV) /\ contains(cpu.p, FlagN)

\* C22: from the same starting registers, SBC with data M leaves the same A,
\* C, V, N and Z as ADC with data M XOR $FF: A' = (A - M - (1 - c)) mod 256,
\* and C is set iff no borrow occurred.
C22_SbcIsAdcOfComplement ==
    Executed("SBC") =>
        LET A == cur.c0.a
            M == cur.y
            diff == A - M - (1 - CarryIn)
            adc == ADC(cur.c0, BitXor(M, 255))
        IN  /\ cpu.a = adc.a
            /\ \A flag \in {FlagC, FlagV, FlagN, FlagZ} :
                  contains(cpu.p, flag) <=> contains(adc.p, flag)
            /\ cpu.a = (diff + 256) % 256
            /\ contains(cpu.p, FlagC) <=> (diff >= 0)

\* SBC of $01 from A = $00 with carry set has borrowed: A = $FF, C clear
C22_Borrowed ==
    /\ Executed("SBC")
    /\ cur.c0.a = 0 /\ cur.y = 1 /\ CarryIn = 1
    /\ cpu.a = 255 /\ ~contains(cpu.p, FlagC) /\ contains(cpu.p, FlagN)

\* the read-modify-write half and the ALU half of an illegal compound
Pair(inst) ==
    CASE inst = "SLO" -> <<"ASL", "ORA">>
      [] inst = "RLA" -> <<"ROL", "AND">>
      [] inst = "SRE" -> <<"LSR", "EOR">>
      [] inst = "RRA" -> <<"ROR", "ADC">>
      [] inst = "DCP" -> <<"DEC", "CMP">>
      [] inst = "ISC" -> <<"INC", "SBC">>

\* cycles of a read-modify-write instruction in zero page, absolute and
\* absolute,X mode
RmwCycles(opcode) ==
    CASE opcode % 32 \in 4..7 -> 5
      [] opcode % 32 \in 12..15 -> 6
      [] opcode % 32 \in 28..31 -> 7

\* the second instruction of a program of RmwImages has run all its steps
RmwDone == mem.ram /\ Done /\ cur.count = 2 /\ cur.at = 49154

DummyWritePending ==
    /\ mem.ram /\ fault = "none" /\ Len(cpu.timing) >= 2 /\ cpu.cycles < CycleCap
    /\ cpu.timing[1].dir = "Write" /\ cpu.timing[1].op = "nop"
    /\ cpu.timing[2].op = "execute_read_write"

FinalWritePending ==
    /\ mem.ram /\ fault = "none" /\ cpu.timing # <<>> /\ cpu.cycles < CycleCap
    /\ cpu.timing[1].op = "execute_read_write"

ReadWriteStep ==
    /\ DummyWritePending =>
          LET last == bus[Len(bus)]
          IN  /\ last.rw = "Read"
              /\ bus' = Append(bus, Access("Write", last.addr, Ram(last.addr)))
    /\ FinalWritePending =>
          LET n == Len(bus)
              modified == execute_read_write(cpu, cpu.timing[1].inst, Ram(bus[n].addr))[2]
          IN  /\ n >= 4
              /\ bus[n - 1].rw = "Read" /\ bus[n].rw = "Write"
              /\ bus[n - 1].addr = bus[n].addr
              /\ bus[n].data = Ram(bus[n].addr)
              /\ bus' = Append(bus, Access("Write", bus[n].addr, modified))
              /\ Ram(bus[n].addr)' = modified

BitOf(v, k) == (v \div (2 ^ k)) % 2

C26_InternalRamMirrors ==
    (cur.fn = "ram" /\ cur.n >= 1) =>
        LET a == cur.x[1]
            data == cur.x[2]
            b == cur.y
        IN  /\ cur.out.captured <=> (a < 8192)
            /\ a >= 8192 => mem = InternalRam
            /\ (cur.n = 2 /\ b >= 8192) => cur.out.read = {}
            /\ (cur.n = 2 /\ a < 8192 /\ b < 8192 /\ b % 2048 = a % 2048) =>
                  cur.out.read = {data}

\* $FF written at $1801 has been read back at $0001
C26_ReadThroughMirror ==
    /\ cur.fn = "ram" /\ cur.n = 2
    /\ cur.x = <<6145, 255>> /\ cur.y = 1
    /\ cur.out = [captured |-> TRUE, read |-> {255}]

\* the addresses the mapper of the PPU bus case in cur decodes, and the
\* addresses the VRAM decodes
MapperRange ==
    IF ~cur.x[3].ram THEN 0..8191
    ELSE IF cur.x[3].map.address_mask = 57344 THEN 8192..16383
    ELSE 8192..12287

VramRange == 8192..16383

\* C27: a read on the PPU bus returns the value of the first device, in
\* priority order, whose read yields Some: the mapper is consulted before
\* the VRAM; a write the mapper captures is not delivered to the VRAM, which
\* is written only when the mapper declines the write.
C27_MapperBeforeVram ==
    (cur.fn = "ppubus" /\ cur.n >= 1) =>
        LET a == cur.x[1]
            data == cur.x[2]
            b == cur.y
            vram == RamBank_new(from_block(8192, 3, 2))
        IN  /\ a \in MapperRange =>
                  cur.out.captured /\ mem.vram_bank = vram
            /\ (a \notin MapperRange /\ a \in VramRange) =>
                  /\ cur.out.captured
                  /\ mem.mapper = cur.x[3]
                  /\ Peek(mem.vram_bank, a % 2048) = data
            /\ (a \notin MapperRange /\ a \notin VramRange) =>
                  ~cur.out.captured /\ mem = PpuBus_new(cur.x[3])
            /\ (cur.n = 2 /\ b \in MapperRange) =>
                  cur.out.read = Mapper_read(mem.mapper, b) /\ cur.out.read # {}
            /\ (cur.n = 2 /\ b \notin MapperRange /\ b \in VramRange) =>
                  cur.out.read = {Peek(mem.vram_bank, b % 2048)}
            /\ (cur.n = 2 /\ b \notin MapperRange /\ b \notin VramRange) =>
                  cur.out.read = {}

\* with a RAM mapper over $2000..$2FFF, $FF written at $2001 has been read
\* back from the mapper, and the VRAM has not been written
C27_MapperCaptured ==
    /\ cur.fn = "ppubus" /\ cur.n = 2
    /\ cur.x[3] = RamBank_new(from_block(8192, 4, 0))
    /\ cur.x[1] = 8193 /\ cur.x[2] = 255 /\ cur.y = 8193
    /\ cur.out = [captured |-> TRUE, read |-> {255}]
    /\ mem.vram_bank.cells = <<>>

\* the access in cur was made on PPUDATA while the PPU address was one that
\* neither the mapper nor the VRAM decodes
UndecodedPpuData(rw) ==
    /\ cur.fn = "ppu" /\ cur.n >= 1
    /\ cur.x[1] = rw
    /\ cur.x[2] \in {8199, 16383}
    /\ cur.y.bus_address >= 16384

\* C28: a bus read of an address that no device decodes completes with the
\* open-bus value, the last data-latch byte, instead of failing; a bus write
\* to such an address changes no device state and does not fail.
C28_OpenBus ==
    /\ cur.fn = "ppu" => fault = "none"
    /\ UndecodedPpuData("read") => cur.out.read = {cur.y.data_latch}
    /\ UndecodedPpuData("write") => mem.bus = cur.y.bus

\* PPUDATA has been written while the PPU address was $4020: the write was
\* dropped
C28_WriteDropped ==
    /\ UndecodedPpuData("write")
    /\ cur.y.bus_address = 16416
    /\ fault = "none" /\ mem.bus = cur.y.bus

\* b is a + 1, for counters kept as <<high half, low half>>
IsNext(a, b) ==
    \/ b[1] = a[1] /\ b[2] = a[2] + 1
    \/ a[2] = 65535 /\ b[1] = a[1] + 1 /\ b[2] = 0

\* C29: every call of cycle() increases the cycle counter by exactly 1; the
\* counter never decreases or wraps around, whatever the number of calls.
C29_CounterIncreases ==
    cur.fn = "system" /\ cur.out.executed > 0 =>
        /\ fault = "none"
        /\ IsNext(cur.out.before, cur.out.cycles)

\* C30: the CPU performs one bus cycle per 12 ticks of the master clock: once
\* the system has run the pulses of the n ticks it has received, cycle() has
\* been called exactly floor(n / 12) times.
C30_OneCyclePerTwelveTicks ==
    cur.fn = "system" /\ cur.out.start = <<0, 0>> /\ cur.y = 0 =>
        cur.out.executed = cur.out.ticks \div 12

RECURSIVE Sum(_)
Sum(counts) == IF counts = <<>> THEN 0 ELSE Head(counts) + Sum(Tail(counts))

\* C31: the calls of cycle() the system thread has made never exceed the sum
\* of the tick counts the clock thread has sent; the counts are received in
\* the order sent, and the cycles of one count are all run before any cycle
\* of the next: while a count is being run, the counts received before it
\* have been run in full and no later count has been touched.
C31_TicksPrecedeCycles ==
    cur.fn = "system" =>
        /\ cur.out.executed <= Sum(cur.out.sent)
        /\ Len(cur.out.received) <= Len(cur.out.sent)
        /\ cur.out.received = SubSeq(cur.out.sent, 1, Len(cur.out.received))
        /\ cur.out.executed + cur.y = Sum(cur.out.received)
        /\ cur.x = SubSeq(cur.out.sent, Len(cur.out.received) + 1, Len(cur.out.sent))

\* the clock has sent 5, 12 and 1 ticks; the system is in the middle of the
\* 12 while the 1 waits in the channel
C31_SecondBatchRunning ==
    /\ cur.fn = "system"
    /\ cur.out.sent = <<5, 12, 1>>
    /\ cur.out.received = <<5, 12>>
    /\ cur.x = <<1>>
    /\ cur.out.executed = 9 /\ cur.y = 8

\* the caller has dropped the handle of Clock::run
HandleDropped ==
    cur.fn = "system" /\ cur.out.clock # "idle" /\ ~cur.out.handle

\* C32: after the caller drops the handle Clock::run has returned, cancel
\* becomes true, and the clock thread comes to see it and leaves its loop,
\* after which it sends no tick.
C32_DropStopsClock ==
    HandleDropped ~> (cur.out.cancel /\ cur.out.clock = "exited")

\* every sender of the channel of a system that runs from new() is dropped
SendersDropped ==
    cur.fn = "system" /\ cur.out.start = <<0, 0>> /\ ~SenderLeft

\* the system thread has ended
SystemDone == cur.fn = "system" /\ cur.out.system = "done"

\* C33: once every sender of the clock channel is dropped, the system thread
\* runs the counts already sent to their end and then ends, without a panic
\* and without waiting for ever.
C33_CleanExit ==
    /\ [](SystemDone =>
            /\ fault = "none"
            /\ cur.x = <<>> /\ cur.y = 0
            /\ cur.out.executed = Sum(cur.out.sent))
    /\ SendersDropped ~> SystemDone

\* the Clock was dropped after three calls of pulse(), and the system thread
\* has ended after the three cycles
C33_EndedAfterPulses ==
    /\ SystemDone
    /\ ~SenderLeft
    /\ cur.out.sent = <<1, 1, 1>>
    /\ cur.out.executed = 3
    /\ fault = "none"

\* the flag a branch opcode tests and the value at which it is taken, from
\* the three high bits of the opcode
BranchFlag(opcode) ==
    CASE opcode \div 64 = 0 -> FlagN
      [] opcode \div 64 = 1 -> FlagV
      [] opcode \div 64 = 2 -> FlagC
      [] opcode \div 64 = 3 -> FlagZ

Taken(opcode, p) == ((p \div BranchFlag(opcode)) % 2) = ((opcode \div 32) % 2)

\* C34: an opcode with (op AND $1F) = $10 is decoded as a conditional branch,
\* taken iff $10 N=0, $30 N=1, $50 V=0, $70 V=1, $90 C=0, $B0 C=1, $D0 Z=0,
\* $F0 Z=1, on the P of the moment of the decode; nothing else than that
\* flag decides, and the decode changes no register.
C34_BranchTakenOnFlag ==
    cur.fn = "decode" /\ cur.n = 1 =>
        /\ fault = "none"
        /\ cpu.timing = <<Read("pc_inc", "pull_operand")>>
                         \o (IF Taken(cur.x, cur.c0.p) THEN <<Read("pc", "branch")>> ELSE <<>>)
                         \o <<decode_step>>
        /\ [cpu EXCEPT !.timing = <<>>] = cur.c0

\* BVS ($70) decoded with V set and N, C, Z clear: the branch step is queued
C34_BvsTaken ==
    /\ cur.fn = "decode" /\ cur.n = 1
    /\ cur.x = 112 /\ cur.c0.p = 100
    /\ Len(cpu.timing) = 3
    /\ cpu.timing[2] = Read("pc", "branch")

\* the pointer the instruction in cur has read in the zero page, low byte in
\* its third access and high byte in its fourth
PointerRead == (bus[4].data * 256) + bus[3].data

\* C35: STA (zp),Y, a Write instruction in (Indirect),Y mode, makes its final
\* write at the 16-bit sum of the pointer it has read at zp and (zp + 1) mod
\* 256 and of Y, after exactly one dummy read at the address without the
\* carry into the high byte; a high byte an earlier instruction has left in
\* the address buffer has no part in it.
C35_StoreIndirectY ==
    mem.ram /\ Done /\ cur.opcode = 145 =>
        /\ Len(bus) = 6
        /\ bus[5] = Access("Read",
                            ((PointerRead \div 256) * 256) + ((PointerRead + cpu.y) % 256),
                            bus[5].data)
        /\ bus[6].rw = "Write"
        /\ bus[6].addr = (PointerRead + cpu.y) % 65536

\* the opcodes, of those fetched, of the instructions that do not transfer
\* control, by the bytes they take: Implied, Accumulator and Stack;
\* Immediate, Zero Page, Zero Page,X/Y, (Indirect,X) and (Indirect),Y;
\* Absolute and Absolute,X/Y
OneByteOpcodes == {24, 234, 232, 10, 8, 40, 72, 104}

TwoByteOpcodes ==
    {169, 162, 165, 133, 6, 36, 181, 149, 22, 182, 150, 161, 129, 3, 177, 145, 19}

ThreeByteOpcodes == {173, 141, 14, 238, 189, 157, 30, 185, 153, 27}

InstructionBytes(opcode) ==
    IF opcode \in OneByteOpcodes THEN 1 ELSE IF opcode \in TwoByteOpcodes THEN 2 ELSE 3

ResetSteps == reset(Fields).timing

\* while the reset sequence runs, the queue holds the steps of reset() that
\* are left, and nothing else
OnlyResetSteps ==
    Resetting => cpu.timing = SubSeq(ResetSteps, Elapsed + 1, Len(ResetSteps))

\* a cycle of the reset sequence leaves A, X, Y and P as they are
ResetKeepsRegisters ==
    (Resetting /\ Resetting' /\ cpu'.cycles # cpu.cycles) =>
        /\ cpu'.a = cpu.a /\ cpu'.x = cpu.x /\ cpu'.y = cpu.y /\ cpu'.p = cpu.p
        /\ cpu'.operand = cpu.operand /\ cpu'.address_buffer = cpu.address_buffer

\* C37: reset() called while steps of an instruction are queued discards
\* them all: the 7 cycles that follow are the reset sequence, and none of
\* them makes a bus access or a register update of that instruction.
C37_ResetDiscardsQueue ==
    [][OnlyResetSteps' /\ ResetKeepsRegisters]_vars

\* reset() was called right after the fetch of the first opcode, when the
\* steps of that instruction were queued, and its seven cycles have run
C37_ResetAfterFetch ==
    /\ Resetting
    /\ cur.count = 1 /\ cur.start = 8
    /\ Elapsed = 7
    /\ cpu.timing = <<decode_step>>

\* C38: in every state reached from new() and reset(), whatever the
\* instructions run and the bytes in memory, bit 5 (Reserved) of P is 1 and
\* bit 4 (B) is 0: no instruction changes either, PLP and RTI with any byte
\* on the stack and BIT with any data included.
C38_ReservedSetBreakClear == BitAnd(cpu.p, 48) = 32

\* RTI has pulled the byte $FF into P: all the flags are set, B is not
C38_RtiPulledAllOnes ==
    /\ mem.ram /\ Done /\ cur.opcode = 64
    /\ Ram(510) = 255
    /\ cpu.p = 239

\* P with N and Z taken from value, the other bits kept
WithNZ(p, value) ==
    (p - BitAnd(p, 130)) + (IF value = 0 THEN 2 ELSE 0) + (IF value >= 128 THEN 128 ELSE 0)

\* the registers c with the register reg set to value and N and Z from it
Moved(c, reg, value) ==
    [a |-> IF reg = "a" THEN value ELSE c.a,
     x |-> IF reg = "x" THEN value ELSE c.x,
     y |-> IF reg = "y" THEN value ELSE c.y,
     stack |-> c.stack,
     p |-> WithNZ(c.p, value)]

\* A, X, Y, S and P after the register instruction opcode on the registers c
RegisterEffect(opcode, c) ==
    CASE opcode = 136 -> Moved(c, "y", (c.y + 255) % 256)
      [] opcode = 168 -> Moved(c, "y", c.a)
      [] opcode = 200 -> Moved(c, "y", (c.y + 1) % 256)
      [] opcode = 232 -> Moved(c, "x", (c.x + 1) % 256)
      [] opcode = 152 -> Moved(c, "a", c.y)
      [] opcode = 138 -> Moved(c, "a", c.x)
      [] opcode = 154 -> [a |-> c.a, x |-> c.x, y |-> c.y, stack |-> c.x, p |-> c.p]
      [] opcode = 170 -> Moved(c, "x", c.a)
      [] opcode = 186 -> Moved(c, "x", c.stack)
      [] opcode = 202 -> Moved(c, "x", (c.x + 255) % 256)
      [] opcode = 234 -> [a |-> c.a, x |-> c.x, y |-> c.y, stack |-> c.stack, p |-> c.p]

\* the cycle after the opcode fetch of a register instruction: its second
\* and last, a read at PC that leaves PC after the opcode
RegisterStep ==
    (mem.ram /\ fault = "none" /\ cur.opcode \in RegisterOpcodes /\ Len(bus) = 1
        /\ cpu'.cycles # cpu.cycles) =>
        /\ fault' = "none"
        /\ cpu'.timing = <<decode_step>>
        /\ bus' = Append(bus, Access("Read", (cur.at + 1) % 65536, bus'[2].data))
        /\ cpu'.pc = (cur.at + 1) % 65536
        /\ mem' = mem
        /\ [a |-> cpu'.a, x |-> cpu'.x, y |-> cpu'.y, stack |-> cpu'.stack, p |-> cpu'.p]
               = RegisterEffect(cur.opcode, cpu)

\* C39: $88 DEY, $A8 TAY, $C8 INY, $E8 INX, $98 TYA, $8A TXA, $9A TXS, $AA
\* TAX, $BA TSX, $CA DEX and $EA NOP are decoded as these instructions and
\* not as the load, store or compare of their block: each takes 2 cycles,
\* writes nothing on the bus, changes its destination register and N and Z
\* only (TXS no flag, NOP nothing) and leaves PC one byte further.
C39_RegisterInstructions == [][RegisterStep]_vars

\* TXS with X = $80 is complete: S is $80 and P is as it was
C39_TxsDone ==
    /\ mem.ram /\ Done /\ cur.opcode = 154
    /\ Len(bus) = 2
    /\ cpu.x = 128 /\ cpu.stack = 128
    /\ cpu.p = cur.p

\* the execution of the case in cur from the state that differs in D only
DecimalTwin ==
    execute_read([cur.c0 EXCEPT !.p = IF @ % 16 >= 8 THEN @ - 8 ELSE @ + 8], cur.x, cur.y)

\* C40: ADC and SBC take no account of D: the execution from the state that
\* differs in bit D of P only, with the same data byte, ends with the same
\* A, C, V, N and Z, and each of the two leaves D as it was.
C40_DecimalIgnored ==
    (Executed("ADC") \/ Executed("SBC")) =>
        /\ (cpu.p % 16 >= 8) <=> (cur.c0.p % 16 >= 8)
        /\ DecimalTwin = [cpu EXCEPT !.p = IF cpu.p % 16 >= 8 THEN @ - 8 ELSE @ + 8]

\* ADC of $01 to A = $09 with D set and carry clear has left the binary sum
\* $0A, and D set
C40_BinarySumWithDecimal ==
    /\ Executed("ADC")
    /\ cur.c0.a = 9 /\ cur.y = 1 /\ cur.c0.p = 44
    /\ cpu.a = 10
    /\ contains(cpu.p, FlagD)

====
